---- MODULE Spec2Model ----
(***************************************************************************)
(* Verification model of VAPack's structural data model (vasptypes.py:     *)
(* Ion, Ions, Poscar) and of the periodic spatial queries built on it      *)
(* (vapack/extensions.py).                                                 *)
(*                                                                         *)
(* Numbers.  Coordinates, lattice entries and radii are exact rationals    *)
(* <<n, d>> (d > 0, lowest terms).  The inputs are dyadic fractions on     *)
(* which the float64 arithmetic of the program is exact, so the model and  *)
(* the program compute the same values on them.  The snap tolerance of     *)
(* Ion._apply_transformation is the program's 1e-8.                        *)
(*                                                                         *)
(* Objects.  Python lists are mutable and shared by reference; the model   *)
(* keeps them in heaps (idxHeap, ionsHeap, latHeap) addressed by integer   *)
(* ids, so that aliasing created by default arguments is visible.          *)
(***************************************************************************)
EXTENDS Integers, Sequences, FiniteSets, TLC

VARIABLES
    idxHeap,    \* index lists (the `indices` attribute of Ions objects), by id
    ionsHeap,   \* the list objects held in Poscar.ions, by id
    latHeap,    \* lattice arrays, by id
    poscars,    \* the Poscar objects of the process, by slot
    last,       \* object model: the last operation, its target and outcome
    g0,         \* geometric model: the Poscar before the operation(s)
    gprev,      \* geometric model: the Poscar before the last operation
    g,          \* geometric model: the Poscar now
    steps,      \* geometric model: the operations applied to g0, in order
    call,       \* query model: the arguments of the last query
    centered,   \* query model: the Poscar returned by get_centered_around
    sel,        \* query model: the selection(s) returned by the last query
    io          \* file model: the running command, its locals and the files

vars == <<idxHeap, ionsHeap, latHeap, poscars, last,
          g0, gprev, g, steps, call, centered, sel, io>>

objVars == <<idxHeap, ionsHeap, latHeap, poscars, last>>
modeVars == <<g0, gprev, g, steps>>
queryVars == <<call, centered, sel>>

(***************************************************************************)
(* Exact rational arithmetic                                               *)
(***************************************************************************)
Abs(n) == IF n < 0 THEN -n ELSE n

Min(a, b) == IF a < b THEN a ELSE b

RECURSIVE GCD(_, _)
GCD(a, b) == IF b = 0 THEN a ELSE GCD(b, a % b)

Rat(n, d) ==
    LET s == IF d < 0 THEN -1 ELSE 1
        k == GCD(Abs(n), Abs(d))
    IN  IF n = 0 THEN <<0, 1>> ELSE <<(s * n) \div k, (s * d) \div k>>

RInt(n) == <<n, 1>>
Zero == <<0, 1>>
One == <<1, 1>>
Half == <<1, 2>>

RAdd(a, b) ==
    LET k == GCD(a[2], b[2])
        m == (a[2] \div k) * b[2]
    IN  Rat(a[1] * (m \div a[2]) + b[1] * (m \div b[2]), m)

RNeg(a) == <<-a[1], a[2]>>
RSub(a, b) == RAdd(a, RNeg(b))

RMul(a, b) ==
    LET k1 == GCD(Abs(a[1]), b[2])
        k2 == GCD(Abs(b[1]), a[2])
    IN  IF a[1] = 0 \/ b[1] = 0 THEN Zero
        ELSE Rat((a[1] \div k1) * (b[1] \div k2), (a[2] \div k2) * (b[2] \div k1))

RDiv(a, b) == RMul(a, IF b[1] < 0 THEN <<-b[2], -b[1]>> ELSE <<b[2], b[1]>>)

RAbs(a) == <<Abs(a[1]), a[2]>>
RSign(a) == IF a[1] > 0 THEN One ELSE IF a[1] < 0 THEN RInt(-1) ELSE Zero
RFloor(a) == RInt(a[1] \div a[2])

\* a < b, by comparing integer parts and then the reciprocals of the fractional
\* parts (Euclid's algorithm: no product is formed, so nothing overflows)
RECURSIVE RLt(_, _)
RLt(a, b) ==
    LET fa == a[1] \div a[2]
        fb == b[1] \div b[2]
        ra == a[1] % a[2]
        rb == b[1] % b[2]
    IN  IF fa # fb THEN fa < fb
        ELSE IF rb = 0 THEN FALSE
        ELSE IF ra = 0 THEN TRUE
        ELSE RLt(<<b[2], rb>>, <<a[2], ra>>)

RLe(a, b) == ~RLt(b, a)
RIsInt(a) == a[2] = 1

(***************************************************************************)
(* Vectors and 3x3 matrices (rows of rationals)                            *)
(***************************************************************************)
Axes == 1..3

VAdd(u, v) == [k \in Axes |-> RAdd(u[k], v[k])]
VSub(u, v) == [k \in Axes |-> RSub(u[k], v[k])]
Dot(u, v) == RAdd(RAdd(RMul(u[1], v[1]), RMul(u[2], v[2])), RMul(u[3], v[3]))
MatVec(A, v) == [k \in Axes |-> Dot(A[k], v)]
Transpose(A) == [i \in Axes |-> [j \in Axes |-> A[j][i]]]

Det(A) ==
    RAdd(RSub(RMul(A[1][1], RSub(RMul(A[2][2], A[3][3]), RMul(A[2][3], A[3][2]))),
              RMul(A[1][2], RSub(RMul(A[2][1], A[3][3]), RMul(A[2][3], A[3][1])))),
         RMul(A[1][3], RSub(RMul(A[2][1], A[3][2]), RMul(A[2][2], A[3][1]))))

Nxt(i) == (i % 3) + 1

\* np.linalg.inv: the adjugate over the determinant
Inv(A) ==
    LET dt == Det(A)
        cof(i, j) == RSub(RMul(A[Nxt(i)][Nxt(j)], A[Nxt(Nxt(i))][Nxt(Nxt(j))]),
                          RMul(A[Nxt(i)][Nxt(Nxt(j))], A[Nxt(Nxt(i))][Nxt(j)]))
    IN  [i \in Axes |-> [j \in Axes |-> RDiv(cof(j, i), dt)]]

(***************************************************************************)
(* Ion._apply_transformation (vasptypes.py:50-57)                          *)
(***************************************************************************)
\* the default `tol` of _apply_transformation is 1e-8 = 1 / TolDen
TolDen == 100000000

\* np.abs(r) > tol, for a rational r = n/d:  |n| * TolDen > d
GtTol(r) == Abs(r[1]) > r[2] \div TolDen

\* r * np.array(np.abs(r) > tol, dtype=int)
Snap(r) == IF GtTol(r) THEN r ELSE Zero

\* Ion._apply_transformation: position := snap(A @ position)
ApplyTransformation(ion, A) ==
    [ion EXCEPT !.position = [k \in Axes |-> Snap(MatVec(A, ion.position)[k])]]

(***************************************************************************)
(* Ions as a value: the list of ions with its companion index list.        *)
(* Python index i is sequence position i + 1.                              *)
(***************************************************************************)
\* Ions.__iter__: zip(self.indices, list iterator) stops at the shorter one
IterLen(ions) == Min(Len(ions.indices), Len(ions.items))

\* the (index, ion) pairs Ions.__iter__ yields
IterPairs(ions) ==
    [k \in 1..IterLen(ions) |-> [index |-> ions.indices[k], ion |-> ions.items[k]]]

\* Poscar.from_file: s_ions = Ions() takes the default index list, the one
\* list every Ions() of the process shares, and appends 0..N-1 to it;
\* `earlier` is what the earlier loads of the process left in that list
LoadedIons(earlier, items) ==
    [items |-> items, indices |-> earlier \o [k \in 1..Len(items) |-> k - 1]]

\* the ions of the first load of a process
MasterIons(items) == LoadedIons(<<>>, items)

(***************************************************************************)
(* Poscar mode (vasptypes.py:432-516)                                      *)
(***************************************************************************)
\* mode[0].lower() for the mode strings of the model
ModeInitial(m) ==
    CASE m \in {"Direct", "d"} -> "d"
      [] m \in {"Cartesian", "c"} -> "c"
      [] m \in {"Kartesian", "k"} -> "k"

is_cartesian(p) == ModeInitial(p.mode) \in {"c", "k"}
is_direct(p) == ModeInitial(p.mode) = "d"

\* for i, _ in self.ions: self.ions[i]._apply_transformation(M)
RECURSIVE TransformVisited(_, _, _, _)
TransformVisited(items, indices, k, M) ==
    IF k > Min(Len(indices), Len(items)) THEN items
    ELSE LET i == indices[k] + 1
         IN  TransformVisited([items EXCEPT ![i] = ApplyTransformation(items[i], M)],
                              indices, k + 1, M)

\* a conversion that forgets to invert the lattice
ConvertToDirectNoInverse(p) ==
    IF is_direct(p) THEN p
    ELSE [p EXCEPT !.ions.items = TransformVisited(p.ions.items, p.ions.indices, 1,
                                                   Transpose(p.lattice)),
                   !.mode = "Direct"]

\* Poscar._convert_to_direct
ConvertToDirect(p) ==
    IF is_direct(p) THEN p
    ELSE LET Ainv == Inv(Transpose(p.lattice))
         IN  [p EXCEPT !.ions.items = TransformVisited(p.ions.items, p.ions.indices, 1, Ainv),
                       !.mode = "Direct"]

\* Poscar._convert_to_cartesian
ConvertToCartesian(p) ==
    IF is_cartesian(p) THEN p
    ELSE LET A == Transpose(p.lattice)
         IN  [p EXCEPT !.ions.items = TransformVisited(p.ions.items, p.ions.indices, 1, A),
                       !.mode = "Cartesian"]

\* Poscar._toggle_mode (every mode string of the model is direct or cartesian)
ToggleMode(p) ==
    IF is_direct(p) THEN ConvertToCartesian(p) ELSE ConvertToDirect(p)

\* position - position // 1, per component
FracPart(v) == [k \in Axes |-> RSub(v[k], RFloor(v[k]))]

\* for i, ion in self.ions: self.ions[i].position = ion.position - ion.position // 1
RECURSIVE WrapVisited(_, _, _)
WrapVisited(items, indices, k) ==
    IF k > Min(Len(indices), Len(items)) THEN items
    ELSE LET i == indices[k] + 1
         IN  WrapVisited([items EXCEPT ![i].position = FracPart(items[k].position)],
                         indices, k + 1)

WrapIons(p) == [p EXCEPT !.ions.items = WrapVisited(p.ions.items, p.ions.indices, 1)]

\* Poscar._constrain
Constrain(p) ==
    IF is_cartesian(p) THEN ConvertToCartesian(WrapIons(ConvertToDirect(p)))
    ELSE WrapIons(p)

\* the exact Direct-space coordinates of the ion at list position k (no snap)
DirectOf(p, k) ==
    IF is_direct(p) THEN p.ions.items[k].position
    ELSE MatVec(Inv(Transpose(p.lattice)), p.ions.items[k].position)

(***************************************************************************)
(* Periodic spatial queries (vapack/extensions.py)                         *)
(***************************************************************************)
\* mode = poscar.mode if mode is None else mode
ResolveMode(p, mode) == IF mode = "None" THEN p.mode ELSE mode

\* poscar.mode[0].lower() != mode[0].lower()
ModeDiffers(p, mode) == ModeInitial(p.mode) # ModeInitial(ResolveMode(p, mode))

\* c = -1 * np.array(np.abs(c) > 0.5, dtype=int) * np.sign(c)
ImageShift(c) == IF RLt(Half, RAbs(c)) THEN RNeg(RSign(c)) ELSE Zero

\* for i, ion in poscar_cp.ions:
\*     poscar_cp.ions[i].position += shift(ion.position - point)
RECURSIVE ShiftVisited(_, _, _, _)
ShiftVisited(items, indices, k, point) ==
    IF k > Min(Len(indices), Len(items)) THEN items
    ELSE LET i == indices[k] + 1
         IN  ShiftVisited(
                 [items EXCEPT ![i].position =
                     [a \in Axes |->
                         RAdd(@[a], ImageShift(RSub(items[k].position[a], point[a])))]],
                 indices, k + 1, point)

ShiftIons(p, point) ==
    [p EXCEPT !.ions.items = ShiftVisited(p.ions.items, p.ions.indices, 1, point)]

\* if mode[0].lower() == "c": point = inv(poscar.lattice.transpose()) @ point
CenterPoint(poscar, point, mode) ==
    IF ModeInitial(mode) = "c" THEN MatVec(Inv(Transpose(poscar.lattice)), point)
    ELSE point

\* get_centered_around(poscar, point, mode)
GetCenteredAround(poscar, point, mode) ==
    IF is_cartesian(poscar)
    THEN ToggleMode(ShiftIons(Constrain(ConvertToDirect(poscar)),
                              CenterPoint(poscar, point, mode)))
    ELSE ShiftIons(Constrain(poscar), CenterPoint(poscar, point, mode))

\* ((u - v) ** 2).sum()
Dist2(u, v) ==
    RAdd(RAdd(RMul(RSub(u[1], v[1]), RSub(u[1], v[1])),
              RMul(RSub(u[2], v[2]), RSub(u[2], v[2]))),
         RMul(RSub(u[3], v[3]), RSub(u[3], v[3])))

\* np.sqrt(d2) <= radius, for a radius >= 0
WithinRadius(u, v, radius) == RLe(Dist2(u, v), RMul(radius, radius))

\* selection[i]._apply_transformation(M) for every i
TransformAll(selection, M) ==
    [selection EXCEPT !.items = [k \in 1..Len(@) |-> ApplyTransformation(@[k], M)]]

IonsOfPairs(pairs) ==
    [items |-> [k \in 1..Len(pairs) |-> pairs[k].ion],
     indices |-> [k \in 1..Len(pairs) |-> pairs[k].index]]

\* get_select_sphere, the selection loop: the ions of p within radius of center
SphereSelection(p, center, radius) ==
    LET Inside(pr) == WithinRadius(pr.ion.position, center, radius)
    IN  IonsOfPairs(SelectSeq(IterPairs(p.ions), Inside))

\* get_select_sphere, the reconversion of the selected ions
SphereReconvert(selection, p, converted) ==
    IF converted /\ p.mode = "Cartesian"
    THEN TransformAll(selection, Inv(Transpose(p.lattice)))
    ELSE IF converted /\ p.mode = "Direct"
    THEN TransformAll(selection, Transpose(p.lattice))
    ELSE selection

\* get_select_sphere, from the copy p already in the working mode
SphereIn(p, center, radius, mode, periodic, converted) ==
    IF periodic
    THEN SphereReconvert(SphereSelection(GetCenteredAround(p, center, mode), center, radius),
                         GetCenteredAround(p, center, mode), converted)
    ELSE SphereReconvert(SphereSelection(p, center, radius), p, converted)

\* get_select_sphere(poscar, center, radius, mode, periodic)
GetSelectSphere(poscar, center, radius, mode, periodic) ==
    SphereIn(IF ModeDiffers(poscar, mode) THEN ToggleMode(poscar) ELSE poscar,
             center, radius, ResolveMode(poscar, mode), periodic, ModeDiffers(poscar, mode))

\* np.allclose(a, b, rtol=0.01): |a - b| <= atol + rtol * |b| on every axis,
\* with numpy's default atol = 1e-8
AtolDen == 100000000
RtolDen == 100
AllClose(u, v) ==
    \A a \in Axes :
        RLe(RAbs(RSub(u[a], v[a])), RAdd(<<1, AtolDen>>, RMul(<<1, RtolDen>>, RAbs(v[a]))))

\* selection.pop(i): the ion and the index at list position k leave the lists
PopAt(selection, k) ==
    [items |-> SubSeq(selection.items, 1, k - 1)
               \o SubSeq(selection.items, k + 1, Len(selection.items)),
     indices |-> SubSeq(selection.indices, 1, k - 1)
               \o SubSeq(selection.indices, k + 1, Len(selection.indices))]

\* for i, (_, ion) in enumerate(selection):
\*     if np.allclose(ion.position, center, rtol=0.01): selection.pop(i)
\* The iterator is at list position k; a pop moves the following ions one place
\* down while the iterator still advances, so the ion after a popped one is
\* never examined.
RECURSIVE PopClose(_, _, _)
PopClose(selection, k, center) ==
    IF k > IterLen(selection) THEN selection
    ELSE IF AllClose(selection.items[k].position, center)
         THEN PopClose(PopAt(selection, k), k + 1, center)
         ELSE PopClose(selection, k + 1, center)

\* get_neighbors, the reconversion of the selected ions
NeighborsReconvert(selection, p, converted) ==
    IF converted /\ is_cartesian(p)
    THEN TransformAll(selection, Inv(Transpose(p.lattice)))
    ELSE IF converted /\ is_direct(p)
    THEN TransformAll(selection, Transpose(p.lattice))
    ELSE selection

\* get_neighbors, from the copy p already in the working mode
NeighborsIn(p, index, radius, mode, periodic, converted) ==
    NeighborsReconvert(
        PopClose(GetSelectSphere(p, p.ions.items[index + 1].position, radius, mode, periodic),
                 1, p.ions.items[index + 1].position),
        p, converted)

\* get_neighbors(poscar, index, radius, mode, periodic)
GetNeighbors(poscar, index, radius, mode, periodic) ==
    NeighborsIn(IF ModeDiffers(poscar, mode) THEN ToggleMode(poscar) ELSE poscar,
                index, radius, ResolveMode(poscar, mode), periodic, ModeDiffers(poscar, mode))

\* lo <= x <= hi, or no range given (None)
NoRange == <<>>
InRange(range, x) == range = NoRange \/ (RLe(range[1], x) /\ RLe(x, range[2]))

\* get_select_box, the selection loop over the copy p in the working mode: the
\* list positions of the ions inside the box
BoxPositions(p, x_range, y_range, z_range) ==
    LET InBox(k) ==
            /\ InRange(x_range, p.ions.items[k].position[1])
            /\ InRange(y_range, p.ions.items[k].position[2])
            /\ InRange(z_range, p.ions.items[k].position[3])
    IN  SelectSeq([k \in 1..IterLen(p.ions) |-> k], InBox)

\* Ions(selection, indices): the selected Ion objects are those of the copy,
\* read after the copy was toggled back
BoxSelection(p, chosen) ==
    [items |-> [j \in 1..Len(chosen) |-> p.ions.items[chosen[j]]],
     indices |-> [j \in 1..Len(chosen) |-> p.ions.indices[chosen[j]]]]

\* get_select_box(poscar, x_range, y_range, z_range, mode)
GetSelectBox(poscar, x_range, y_range, z_range, mode) ==
    IF ModeDiffers(poscar, mode)
    THEN BoxSelection(ToggleMode(ToggleMode(poscar)),
                      BoxPositions(ToggleMode(poscar), x_range, y_range, z_range))
    ELSE BoxSelection(poscar, BoxPositions(poscar, x_range, y_range, z_range))

(***************************************************************************)
(* get_select_chain (vapack/extensions.py:188-242)                         *)
(***************************************************************************)
\* str.lower() on the species strings of the model
Lower(sp) ==
    CASE sp \in {"H", "h"} -> "h"
      [] sp \in {"C", "c"} -> "c"
      [] sp \in {"Fe", "fe", "FE"} -> "fe"
      [] sp \in {"O", "o"} -> "o"
      [] OTHER -> sp

\* extent = np.inf: larger than any jump count
NoExtent == 99

SeqHas(q, x) == \E k \in 1..Len(q) : q[k] = x

\* the skip tests of the inner loop without the test for indices already
\* in the selection
ChainSkipsSeen(st, cp, i, m, jump_distance, species_blacklist, index_blacklist) ==
    \/ SeqHas([k \in 1..Len(species_blacklist) |-> Lower(species_blacklist[k])],
              Lower(cp.ions.items[m].species))
    \/ SeqHas(index_blacklist, cp.ions.indices[m])
    \/ RLt(RMul(jump_distance, jump_distance),
           Dist2(cp.ions.items[i + 1].position,
                 cp.ions.items[cp.ions.indices[m] + 1].position))

\* the skip tests of the inner loop, for the pair at list position m of the
\* centred Cartesian copy cp; i is the index of the ion being expanded
ChainSkips(st, cp, i, m, jump_distance, species_blacklist, index_blacklist) ==
    \/ SeqHas(st.indices, cp.ions.indices[m])
    \/ SeqHas([k \in 1..Len(species_blacklist) |-> Lower(species_blacklist[k])],
              Lower(cp.ions.items[m].species))
    \/ SeqHas(index_blacklist, cp.ions.indices[m])
    \/ RLt(RMul(jump_distance, jump_distance),
           Dist2(cp.ions.items[i + 1].position,
                 cp.ions.items[cp.ions.indices[m] + 1].position))

\* selection.append(poscar.ions[j]); selection.indices.append(j);
\* jumps.append(jump + 1).  `parents` records the ion being expanded.
ChainAppend(st, poscar, j, i, jump) ==
    [st EXCEPT !.items = Append(@, poscar.ions.items[j + 1]),
               !.indices = Append(@, j),
               !.jumps = Append(@, jump + 1),
               !.parents = Append(@, i)]

\* for j, ion in poscar_cp.ions: ... (the inner loop, from list position m)
RECURSIVE ChainAdmit(_, _, _, _, _, _, _, _, _)
ChainAdmit(st, poscar, cp, i, jump, m, jump_distance, species_blacklist, index_blacklist) ==
    IF m > IterLen(cp.ions) THEN st
    ELSE ChainAdmit(
             IF ChainSkips(st, cp, i, m, jump_distance, species_blacklist, index_blacklist)
             THEN st
             ELSE ChainAppend(st, poscar, cp.ions.indices[m], i, jump),
             poscar, cp, i, jump, m + 1, jump_distance, species_blacklist, index_blacklist)

\* the head tests of the outer loop with the first_hydrogen flag left out
ChainLeafNoFirst(st, k, extent, hydrogen_termination) ==
    \/ st.jumps[k] >= extent
    \/ hydrogen_termination /\ st.items[k].species = "H"

\* the head tests of the outer loop with the extent test off by one
ChainLeafLate(st, k, extent, hydrogen_termination) ==
    \/ st.jumps[k] > extent
    \/ hydrogen_termination /\ ~st.first_hydrogen /\ st.items[k].species = "H"

\* the two `continue` tests at the head of the outer loop
ChainLeaf(st, k, extent, hydrogen_termination) ==
    \/ st.jumps[k] >= extent
    \/ hydrogen_termination /\ ~st.first_hydrogen /\ st.items[k].species = "H"

\* poscar_cp = get_centered_around(poscar, selected_ion.position);
\* poscar_cp._convert_to_cartesian()
ChainCopy(poscar, point) == ConvertToCartesian(GetCenteredAround(poscar, point, "Direct"))

\* for (i, selected_ion), jump in zip(selection, jumps): the outer loop, from
\* list position k of the growing selection
RECURSIVE ChainLoop(_, _, _, _, _, _, _, _)
ChainLoop(st, poscar, k, jump_distance, extent, species_blacklist, index_blacklist, hydrogen_termination) ==
    IF k > Min(IterLen(st), Len(st.jumps)) THEN st
    ELSE IF ChainLeaf(st, k, extent, hydrogen_termination)
    THEN ChainLoop(st, poscar, k + 1, jump_distance, extent, species_blacklist,
                   index_blacklist, hydrogen_termination)
    ELSE ChainLoop(
             [ChainAdmit(st, poscar, ChainCopy(poscar, st.items[k].position),
                         st.indices[k], st.jumps[k], 1,
                         jump_distance, species_blacklist, index_blacklist)
                 EXCEPT !.first_hydrogen = FALSE,
                        !.expanded = Append(@, st.indices[k])],
             poscar, k + 1, jump_distance, extent, species_blacklist,
             index_blacklist, hydrogen_termination)

\* get_select_chain; the value is the selection (items, indices) together with
\* the local list `jumps` and a record of which ion admitted which
GetSelectChain(poscar, start_index, jump_distance, extent, species_blacklist, index_blacklist, hydrogen_termination) ==
    ChainLoop([items |-> <<poscar.ions.items[start_index + 1]>>,
               indices |-> <<start_index>>,
               jumps |-> <<0>>,
               parents |-> <<start_index>>,
               expanded |-> <<>>,
               first_hydrogen |-> TRUE],
              poscar, 1, jump_distance, extent, species_blacklist, index_blacklist,
              hydrogen_termination)

(***************************************************************************)
(* Inputs of the geometric model                                           *)
(***************************************************************************)
Quarter == <<1, 4>>
\* 2^-26 = 1.49e-8 is just above the snap tolerance, 2^-27 = 7.45e-9 just below
Above == <<1, 67108864>>
Below == <<1, 134217728>>

Diag(a) == <<<<a, Zero, Zero>>, <<Zero, a, Zero>>, <<Zero, Zero, a>>>>
\* a sheared cell: a = (1,0,0), b = (1,1/2,0), c = (0,0,1)
Sheared == <<<<One, Zero, Zero>>, <<One, Half, Zero>>, <<Zero, Zero, One>>>>

Lattices == {Diag(One), Diag(RInt(2)), Sheared}
ModeStrings == {"Direct", "Cartesian", "Kartesian"}

ModeXs == {Zero, Below, Above, Quarter, One, <<5, 4>>, <<-1, 4>>}
ModeYs == {Half, Below, <<-3, 4>>}
ModePositions == {<<x, y, Half>> : x \in ModeXs, y \in ModeYs}

\* the ion lists of the mode model hold 1..MaxModeIons ions
MaxModeIons == 1
MaxSteps == 2

RECURSIVE SeqsUpTo(_, _)
SeqsUpTo(S, n) ==
    IF n = 0 THEN {<<>>}
    ELSE LET shorter == SeqsUpTo(S, n - 1)
         IN  shorter \cup {Append(q, x) : q \in {r \in shorter : Len(r) = n - 1}, x \in S}

ModeIonLists ==
    {q \in SeqsUpTo({[species |-> "Fe", position |-> r] : r \in ModePositions}
                    \cup {[species |-> "O", position |-> <<Quarter, Half, Half>>]},
                    MaxModeIons) : Len(q) >= 1}

ModePoscars ==
    {[mode |-> m, lattice |-> L, ions |-> MasterIons(q)] :
        m \in ModeStrings, L \in Lattices, q \in ModeIonLists}

NoArgs == [op |-> "none", point |-> <<Zero, Zero, Zero>>, mode |-> "None", index |-> 0,
           radius |-> Zero, periodic |-> FALSE, x_range |-> NoRange,
           extent |-> 0, species_blacklist |-> <<>>, index_blacklist |-> <<>>,
           hydrogen_termination |-> FALSE]
NoSelection == [items |-> <<>>, indices |-> <<>>]

NoPoscar == [mode |-> "Direct", lattice |-> Diag(One), ions |-> MasterIons(<<>>)]

(***************************************************************************)
(* The state before any operation                                          *)
(***************************************************************************)
MaxPoscars == 3
Slots == 1..MaxPoscars

\* the objects the default arguments create when the module is imported: the
\* `indices=[]` of Ions.__init__, the `ions=Ions()` and the
\* `lattice=np.identity(3)` of Poscar.__init__
DefaultIndices == 1
DefaultIons == 1
DefaultLattice == 1

NoObj == [live |-> FALSE, species |-> <<>>, ions |-> 0, lattice |-> 0,
          log |-> <<>>, clean |-> TRUE]

\* no command is running
NoIo == [cmd |-> "none"]

HeapStart ==
    /\ idxHeap = << <<>> >>
    /\ ionsHeap = << [kind |-> "Ions", items |-> <<>>, indices |-> DefaultIndices] >>
    /\ latHeap = << Diag(One) >>
    /\ poscars = [s \in Slots |-> NoObj]
    /\ last = [op |-> "import", slot |-> 0, raised |-> FALSE, before |-> <<>>, n |-> 0]

ObjStart ==
    /\ io = NoIo
    /\ HeapStart

QueryIdle ==
    /\ call = NoArgs
    /\ centered = NoPoscar
    /\ sel = NoSelection

(***************************************************************************)
(* The mode model: _toggle_mode and _constrain applied to a Poscar          *)
(***************************************************************************)
InitMode ==
    /\ ObjStart
    /\ QueryIdle
    /\ g0 \in ModePoscars
    /\ gprev = g0
    /\ g = g0
    /\ steps = <<>>

Toggle ==
    /\ Len(steps) < MaxSteps
    /\ g' = ToggleMode(g)
    /\ gprev' = g
    /\ steps' = Append(steps, "toggle")
    /\ UNCHANGED <<g0, objVars, queryVars, io>>

ConstrainStep ==
    /\ Len(steps) < MaxSteps
    /\ g' = Constrain(g)
    /\ gprev' = g
    /\ steps' = Append(steps, "constrain")
    /\ UNCHANGED <<g0, objVars, queryVars, io>>

NextMode == Toggle \/ ConstrainStep

SpecMode == InitMode /\ [][NextMode]_vars

IonPositions(p) == {k \in 1..Len(p.ions.items) : TRUE}

WithinTol(a, b) == ~GtTol(RSub(a, b))
In01(x) == x[1] >= 0 /\ x[1] < x[2]

SameMode(p, q) == is_direct(p) <=> is_direct(q)

TwoToggles == steps = <<"toggle", "toggle">>

\* no component of the intermediate (other-mode) position was zeroed by the snap
NoIntermediateSnap(k) ==
    LET M == IF is_direct(g0) THEN Transpose(g0.lattice) ELSE Inv(Transpose(g0.lattice))
        r == MatVec(M, g0.ions.items[k].position)
    IN  \A a \in Axes : r[a] = Zero \/ GtTol(r[a])

\* C6 as stated: after two toggles the mode is the original one and every
\* position component is within 1e-8 of its original value.
C6_Original ==
    TwoToggles =>
        /\ SameMode(g, g0)
        /\ \A k \in IonPositions(g0) : \A a \in Axes :
              WithinTol(g.ions.items[k].position[a], g0.ions.items[k].position[a])

\* C6 (amended): after two toggles the mode is the original one, and every
\* component of an ion none of whose intermediate components was zeroed by the
\* snap of the first conversion is within 1e-8 of its original value.
C6_ToggleTwice ==
    TwoToggles =>
        /\ SameMode(g, g0)
        /\ \A k \in IonPositions(g0) : NoIntermediateSnap(k) =>
              \A a \in Axes :
                 WithinTol(g.ions.items[k].position[a], g0.ions.items[k].position[a])

\* two toggles done, and the second snap changed a component (by at most 1e-8)
C6_Witness ==
    /\ TwoToggles
    /\ \E k \in IonPositions(g0) :
          /\ NoIntermediateSnap(k)
          /\ g.ions.items[k].position # g0.ions.items[k].position

OneConstrain == steps = <<"constrain">>

\* C7 as stated: after _constrain the mode is unchanged, every Direct-space
\* coordinate lies in [0,1), and every ion moved by a whole number of lattice
\* vectors on every axis.
C7_Constrain ==
    OneConstrain =>
        /\ SameMode(g, g0)
        /\ \A k \in IonPositions(g0) : \A a \in Axes :
              /\ In01(DirectOf(g, k)[a])
              /\ RIsInt(RSub(DirectOf(g, k)[a], DirectOf(g0, k)[a]))

(***************************************************************************)
(* The query model: one spatial query on a Poscar                          *)
(***************************************************************************)
\* x coordinates: near both cell faces, mid-cell, within 1% of mid-cell, and
\* outside the primary cell
QueryXs == {<<1, 64>>, Quarter, Half, <<129, 256>>, <<63, 64>>, <<15, 8>>}
QueryPositions == {<<x, Half, Half>> : x \in QueryXs}
QueryPoints == {<<x, Half, Half>> : x \in {<<1, 64>>, Half, One}} \cup {<<One, One, One>>}
QueryRadii == {<<1, 8>>, Half}
QueryModes == {"None", "Direct", "Cartesian"}
CenteredModes == {"Direct", "Cartesian", "k"}
QueryLattices == {Diag(One), Diag(RInt(2))}
QueryRanges == {NoRange, <<Zero, Half>>, <<Half, One>>}

MaxQueryIons == 2

QueryIonLists ==
    {q \in SeqsUpTo({[species |-> sp, position |-> r] : sp \in {"Fe"}, r \in QueryPositions},
                    MaxQueryIons) : Len(q) >= 1}

QueryPoscars ==
    {[mode |-> m, lattice |-> L, ions |-> MasterIons(q)] :
        m \in {"Direct", "Cartesian"}, L \in QueryLattices, q \in QueryIonLists}

InitQuery ==
    /\ ObjStart
    /\ g0 \in QueryPoscars
    /\ gprev = g0
    /\ g = g0
    /\ steps = <<>>
    /\ call = NoArgs
    /\ centered = NoPoscar
    /\ sel = NoSelection

CallCentered ==
    \E point \in QueryPoints, mode \in CenteredModes :
        /\ call.op = "none"
        /\ call' = [NoArgs EXCEPT !.op = "centered", !.point = point, !.mode = mode]
        /\ centered' = GetCenteredAround(g0, point, mode)
        /\ UNCHANGED <<sel, objVars, modeVars, io>>

CallSphere ==
    \E center \in QueryPoints, radius \in QueryRadii, mode \in QueryModes,
       periodic \in BOOLEAN :
        /\ call.op = "none"
        /\ call' = [NoArgs EXCEPT !.op = "sphere", !.point = center, !.mode = mode,
                                  !.radius = radius, !.periodic = periodic]
        /\ sel' = GetSelectSphere(g0, center, radius, mode, periodic)
        /\ UNCHANGED <<centered, objVars, modeVars, io>>

CallNeighbors ==
    \E index \in 0..(Len(g0.ions.items) - 1), radius \in QueryRadii,
       mode \in QueryModes, periodic \in BOOLEAN :
        /\ call.op = "none"
        /\ call' = [NoArgs EXCEPT !.op = "neighbors", !.index = index, !.mode = mode,
                                  !.radius = radius, !.periodic = periodic]
        /\ sel' = GetNeighbors(g0, index, radius, mode, periodic)
        /\ UNCHANGED <<centered, objVars, modeVars, io>>

CallBox ==
    \E x_range \in QueryRanges, mode \in QueryModes :
        /\ call.op = "none"
        /\ call' = [NoArgs EXCEPT !.op = "box", !.mode = mode, !.x_range = x_range]
        /\ sel' = GetSelectBox(g0, x_range, NoRange, NoRange, mode)
        /\ UNCHANGED <<centered, objVars, modeVars, io>>

NextQuery == CallCentered \/ CallSphere \/ CallNeighbors \/ CallBox

SpecQuery == InitQuery /\ [][NextQuery]_vars

(***************************************************************************)
(* The chain model: one selection query on a chain of ions along x          *)
(***************************************************************************)
MaxChainIons == 3

\* ion k of a chain sits at x = (2k - 1)/8, y = z = 1/2
ChainPosition(k) == <<Rat(2 * k - 1, 8), Half, Half>>
ChainSpecies == {"C", "H"}
ChainIonLists ==
    {[k \in 1..Len(q) |-> [species |-> q[k], position |-> ChainPosition(k)]] :
        q \in {r \in SeqsUpTo(ChainSpecies, MaxChainIons) : Len(r) >= 1}}

ChainPoscars ==
    {[mode |-> m, lattice |-> L, ions |-> MasterIons(q)] :
        m \in {"Direct", "Cartesian"}, L \in QueryLattices, q \in ChainIonLists}

ChainDistances == {Quarter, Half}
ChainExtents == {0, 1, 2, NoExtent}
ChainSpeciesBlacklists == {<<>>, <<"h">>, <<"C">>}
ChainIndexBlacklists == {<<>>, <<1>>}

InitChain ==
    /\ ObjStart
    /\ QueryIdle
    /\ g0 \in ChainPoscars
    /\ gprev = g0
    /\ g = g0
    /\ steps = <<>>

CallChain ==
    \E start_index \in 0..(Len(g0.ions.items) - 1), jump_distance \in ChainDistances,
       extent \in ChainExtents, species_blacklist \in ChainSpeciesBlacklists,
       index_blacklist \in ChainIndexBlacklists, hydrogen_termination \in BOOLEAN :
        /\ call.op = "none"
        /\ call' = [NoArgs EXCEPT !.op = "chain", !.index = start_index,
                                  !.radius = jump_distance, !.extent = extent,
                                  !.species_blacklist = species_blacklist,
                                  !.index_blacklist = index_blacklist,
                                  !.hydrogen_termination = hydrogen_termination]
        /\ sel' = GetSelectChain(g0, start_index, jump_distance, extent, species_blacklist,
                                 index_blacklist, hydrogen_termination)
        /\ UNCHANGED <<centered, objVars, modeVars, io>>

NextChain == CallSphere \/ CallNeighbors \/ CallBox \/ CallChain

SpecChain == InitChain /\ [][NextChain]_vars

\* the queries on a Poscar read by any load of a process: the first, or one
\* after earlier loads of up to MaxEarlier ions
MaxEarlier == 1
EarlierLists == {[k \in 1..n |-> k - 1] : n \in 0..MaxEarlier}

SourcePoscars ==
    {[mode |-> m, lattice |-> L, ions |-> LoadedIons(e, q)] :
        m \in {"Direct", "Cartesian"}, L \in QueryLattices, q \in ChainIonLists,
        e \in EarlierLists}

InitSource ==
    /\ ObjStart
    /\ QueryIdle
    /\ g0 \in SourcePoscars
    /\ gprev = g0
    /\ g = g0
    /\ steps = <<>>

SpecSource == InitSource /\ [][NextChain]_vars

Range(q) == {q[k] : k \in DOMAIN q}

\* the point of a get_centered_around call in Direct coordinates, when `mode`
\* is read as the claim reads it: Cartesian whether spelled 'c' or 'k'
DirectPoint(p, point, mode) ==
    IF ModeInitial(mode) \in {"c", "k"} THEN MatVec(Inv(Transpose(p.lattice)), point)
    ELSE point

\* d is w moved by the offset among {0, +1, -1} that brings it nearest to pt
NearestOffset(d, w, pt) ==
    /\ RSub(d, w) \in {Zero, One, RInt(-1)}
    /\ \A o \in {Zero, One, RInt(-1)} :
          RLe(RAbs(RSub(d, pt)), RAbs(RSub(RAdd(w, o), pt)))

\* C8 as stated: get_centered_around returns a Poscar in the mode of its input
\* in which every ion is its wrapped position moved, on every axis, by the
\* offset among {0, +1, -1} that brings it nearest in Direct space to `point`,
\* `point` being read in `mode` (Cartesian for 'c' and for 'k').
C8_Centered ==
    call.op = "centered" =>
        /\ SameMode(centered, g0)
        /\ Len(centered.ions.items) = Len(g0.ions.items)
        /\ \A k \in IonPositions(g0) : \A a \in Axes :
              NearestOffset(DirectOf(centered, k)[a],
                            RSub(DirectOf(g0, k)[a], RFloor(DirectOf(g0, k)[a])),
                            DirectPoint(g0, call.point, call.mode)[a])

\* the position of ion `index` in the coordinates of the mode a query works in
PositionIn(p, index, mode) ==
    (IF ModeDiffers(p, mode) THEN ToggleMode(p) ELSE p).ions.items[index + 1].position

\* C9 as stated: get_neighbors returns exactly the ions of the sphere centred
\* on ion `index` (same radius, mode, periodic flag) other than ion `index`.
C9_Neighbors ==
    call.op = "neighbors" =>
        /\ Range(sel.indices) =
              Range(GetSelectSphere(g0, PositionIn(g0, call.index, call.mode), call.radius,
                                    call.mode, call.periodic).indices) \ {call.index}
        /\ Len(sel.indices) = Cardinality(Range(sel.indices))

IsCartesianMode(mode) == ModeInitial(mode) \in {"c", "k"}

\* x - round(x): the signed offset of x from the nearest integer
FromNearestInt(x) == RSub(x, RFloor(RAdd(x, Half)))

\* the separation vector from ion i to the nearest periodic image of ion j, in
\* the coordinates of `mode` (p has an orthogonal cell: a diagonal lattice)
ImageSeparation(p, i, j, mode) ==
    [a \in Axes |->
        RMul(IF IsCartesianMode(mode) THEN p.lattice[a][a] ELSE One,
             FromNearestInt(RSub(DirectOf(p, j + 1)[a], DirectOf(p, i + 1)[a])))]

\* ions i and j are within `radius` of each other through the periodic
\* boundary, and the nearest image of j is not at (or within the allclose
\* tolerance of) the position of i
NearNeighbours(p, i, j, radius, mode) ==
    /\ i # j
    /\ RLe(Dot(ImageSeparation(p, i, j, mode), ImageSeparation(p, i, j, mode)),
           RMul(radius, radius))
    /\ ~AllClose(VAdd(PositionIn(p, i, mode), ImageSeparation(p, i, j, mode)),
                 PositionIn(p, i, mode))
    /\ ~AllClose(VAdd(PositionIn(p, j, mode), ImageSeparation(p, j, i, mode)),
                 PositionIn(p, j, mode))

\* C10 as stated: with periodic=True two distinct ions whose nearest-image
\* separation is within the radius are in each other's get_neighbors result,
\* wherever they are stored; a box with literal ranges selects no ion whose
\* coordinate lies outside the range.  (The pairs are taken apart from each
\* other, so that the removal loop of get_neighbors leaves them alone.)
C10_Periodic ==
    /\ (call.op = "neighbors" /\ call.periodic) =>
          \A j \in 0..(Len(g0.ions.items) - 1) :
              NearNeighbours(g0, call.index, j, call.radius, ResolveMode(g0, call.mode))
              => /\ j \in Range(sel.indices)
                 /\ call.index \in Range(GetNeighbors(g0, j, call.radius, call.mode,
                                                      call.periodic).indices)
    /\ call.op = "box" =>
          \A j \in 0..(Len(g0.ions.items) - 1) :
              ~InRange(call.x_range, PositionIn(g0, j, call.mode)[1])
              => j \notin Range(sel.indices)

(***************************************************************************)
(* Claims on the selections of the chain model                             *)
(***************************************************************************)
Distinct(q) == \A i, j \in 1..Len(q) : i # j => q[i] # q[j]

\* C11: every (index, ion) pair returned by get_select_sphere, get_neighbors,
\* get_select_box or get_select_chain carries an index of the source whose ion
\* has the returned ion's species, no index is returned twice, and the result
\* has as many indices as ions.
C11_SourceIndices ==
    call.op \in {"sphere", "neighbors", "box", "chain"} =>
        /\ Len(sel.items) = Len(sel.indices)
        /\ Distinct(sel.indices)
        /\ \A k \in 1..Len(sel.indices) :
              /\ sel.indices[k] \in 0..(Len(g0.ions.items) - 1)
              /\ sel.items[k].species = g0.ions.items[sel.indices[k] + 1].species

\* list position of the ion with index j in a chain result
ChainAt(r, j) == CHOOSE k \in 1..Len(r.indices) : r.indices[k] = j

\* C12: in get_select_chain every admitted ion has a jump count of at most
\* `extent`; an ion whose jump count has reached `extent` is never expanded;
\* the start ion has jump count 0; every other ion's jump count is that of the
\* ion that admitted it plus one; extent = 0 returns the start ion alone.
C12_JumpCounts ==
    call.op = "chain" =>
        /\ Len(sel.jumps) = Len(sel.indices)
        /\ sel.indices[1] = call.index
        /\ sel.jumps[1] = 0
        /\ \A k \in 1..Len(sel.jumps) : sel.jumps[k] <= call.extent
        /\ \A k \in 2..Len(sel.jumps) :
              /\ SeqHas(sel.indices, sel.parents[k])
              /\ ChainAt(sel, sel.parents[k]) < k
              /\ sel.jumps[k] = sel.jumps[ChainAt(sel, sel.parents[k])] + 1
        /\ \A k \in 1..Len(sel.expanded) :
              sel.jumps[ChainAt(sel, sel.expanded[k])] < call.extent
        /\ call.extent = 0 => sel.indices = <<call.index>>

\* the extent cut the chain short: an ion at jump count `extent` was admitted
\* and the unlimited chain from the same start is longer
C12_Witness ==
    /\ call.op = "chain"
    /\ call.extent = 1
    /\ \E k \in 1..Len(sel.jumps) : sel.jumps[k] = 1
    /\ Len(GetSelectChain(g0, call.index, call.radius, NoExtent, call.species_blacklist,
                          call.index_blacklist, call.hydrogen_termination).indices)
          > Len(sel.indices)

\* C13: with hydrogen_termination an admitted 'H' ion other than the start ion
\* admits no ion (it is never expanded), while the start ion is expanded even
\* when it is hydrogen (whenever extent lets anything expand); without
\* hydrogen_termination every admitted ion below the extent is expanded,
\* hydrogen or not.
C13_HydrogenLeaf ==
    call.op = "chain" =>
        /\ call.hydrogen_termination =>
              \A k \in 2..Len(sel.indices) :
                  sel.items[k].species = "H" =>
                      /\ ~SeqHas(sel.expanded, sel.indices[k])
                      /\ \A m \in 2..Len(sel.parents) : sel.parents[m] # sel.indices[k]
        /\ call.extent > 0 => SeqHas(sel.expanded, call.index)
        /\ \A k \in 1..Len(sel.indices) :
              (/\ sel.jumps[k] < call.extent
               /\ (~call.hydrogen_termination \/ sel.items[k].species # "H"))
              => SeqHas(sel.expanded, sel.indices[k])

\* a hydrogen start ion admitted a hydrogen that stayed a leaf although an
\* unselected ion was within reach of it
C13_Witness ==
    /\ call.op = "chain"
    /\ call.hydrogen_termination
    /\ sel.items[1].species = "H"
    /\ \E k \in 2..Len(sel.indices) :
          /\ sel.items[k].species = "H"
          /\ sel.jumps[k] < call.extent
    /\ Len(GetSelectChain(g0, call.index, call.radius, call.extent, call.species_blacklist,
                          call.index_blacklist, FALSE).indices)
          > Len(sel.indices)

(***************************************************************************)
(* The object model: Poscar objects, the list objects in their `ions`      *)
(* attribute and the index lists of Ions objects, with Python's reference  *)
(* semantics.  Positions play no part here; an ion is its species and a    *)
(* tag `id` telling the Ion objects apart.                                 *)
(***************************************************************************)
MaxFileIons == 2
MaxSelection == 2
MaxOps == 3

\* an element of a list object: a bare Ion, or the tuple (idx, Ion)
BareIon(sp, id) == [t |-> "ion", idx |-> -1, species |-> sp, id |-> id]
Pair(i, ion) == [t |-> "pair", idx |-> i, species |-> ion.species, id |-> ion.id]

\* str.lower().capitalize() on the species strings of the model
Capitalize(sp) ==
    CASE sp \in {"fe", "FE", "Fe"} -> "Fe"
      [] sp \in {"o", "O"} -> "O"
      [] OTHER -> sp

\* what iterating a list object yields: Ions.__iter__ zips the index list with
\* the ions; a plain list yields its items
Elements(o, ih) ==
    IF o.kind = "Ions"
    THEN [k \in 1..Min(Len(ih[o.indices]), Len(o.items)) |->
             Pair(ih[o.indices][k], o.items[k])]
    ELSE o.items

\* the first loop of _reconcile_ions: a dict of counts keyed by the capitalized
\* species, in first-seen order (a sequence of <<key, count>>)
RECURSIVE CountSpecies(_, _)
CountSpecies(elems, species) ==
    IF elems = <<>> THEN species
    ELSE LET isp == Capitalize(Head(elems).species)
             at == {k \in 1..Len(species) : species[k][1] = isp}
         IN  CountSpecies(Tail(elems),
                 IF at = {} THEN Append(species, <<isp, 1>>)
                 ELSE [species EXCEPT ![CHOOSE k \in at : TRUE][2] = @ + 1])

\* the second loop of _reconcile_ions: for each key, the elements whose species
\* EQUALS the key (i.species == sp), concatenated
RECURSIVE Blocks(_, _)
Blocks(keys, elems) ==
    IF keys = <<>> THEN <<>>
    ELSE SelectSeq(elems, LAMBDA e : e.species = Head(keys)[1])
             \o Blocks(Tail(keys), elems)

\* _reconcile_ions on the elements yielded by self.ions; unpacking a bare Ion
\* (`for _, ion in self.ions`) raises before anything is assigned
ReconcileRaises(elems) == \E k \in 1..Len(elems) : elems[k].t = "ion"
ReconcileSpecies(elems) == CountSpecies(elems, <<>>)
ReconcileIons(elems) == Blocks(ReconcileSpecies(elems), elems)

\* list.pop(i) for 0 <= i < len
PopAt0(q, i) == SubSeq(q, 1, i) \o SubSeq(q, i + 2, Len(q))

\* the loop of edit_ions: self.ions[i] = ion for each (i, ion) of the selection
RECURSIVE EditLoop(_, _)
EditLoop(selection, st) ==
    IF selection = <<>> \/ st.raised THEN st
    ELSE LET e == Head(selection)
         IN  IF e.idx >= Len(st.items) THEN [st EXCEPT !.raised = TRUE]
             ELSE EditLoop(Tail(selection),
                           [st EXCEPT !.items[e.idx + 1] = BareIon(e.species, e.id)])

\* the loop of remove_ions: self.ions.pop(i) for each index of the selection.
\* Ions.pop pops the index list first and the ion list second; list.pop pops
\* the list.  st.idx is the index list of an Ions object.
RECURSIVE RemoveLoop(_, _, _)
RemoveLoop(selection, kind, st) ==
    IF selection = <<>> \/ st.raised THEN st
    ELSE LET i == Head(selection).idx
         IN  IF kind = "Ions" /\ i >= Len(st.idx) THEN [st EXCEPT !.raised = TRUE]
             ELSE IF kind = "Ions" /\ i >= Len(st.items)
                  THEN [st EXCEPT !.idx = PopAt0(@, i), !.raised = TRUE]
             ELSE IF kind = "Ions"
                  THEN RemoveLoop(Tail(selection), kind,
                           [st EXCEPT !.idx = PopAt0(@, i), !.items = PopAt0(@, i)])
             ELSE IF i >= Len(st.items) THEN [st EXCEPT !.raised = TRUE]
             ELSE RemoveLoop(Tail(selection), kind, [st EXCEPT !.items = PopAt0(@, i)])

\* the ions a POSCAR file lists: each species repeated by its count
RECURSIVE FileIons(_)
FileIons(species) ==
    IF species = <<>> THEN <<>>
    ELSE [k \in 1..Head(species)[2] |-> Head(species)[1]] \o FileIons(Tail(species))

RECURSIVE SumCounts(_)
SumCounts(species) ==
    IF species = <<>> THEN 0 ELSE Head(species)[2] + SumCounts(Tail(species))

Free(s) == ~poscars[s].live /\ \A r \in 1..(s - 1) : poscars[r].live
Live(s) == poscars[s].live
Budget == last.n < MaxOps

Done(op, s, r, before) ==
    [op |-> op, slot |-> s, raised |-> r, before |-> before, n |-> last.n + 1]

\* the species line and the counts line of a POSCAR file, as from_file reads
\* them: names capitalized, one dict entry per name
FileEntries == {<<sp, c>> : sp \in {"Fe", "O"}, c \in 1..MaxFileIons}
Files ==
    {f \in SeqsUpTo(FileEntries, 2) :
        /\ Len(f) >= 1
        /\ SumCounts(f) <= MaxFileIons
        /\ \A i, j \in 1..Len(f) : i # j => f[i][1] # f[j][1]}

\* the selections handed to edit_ions and remove_ions: (index, ion) pairs
SelectionSpecies == {"Fe", "fe", "O"}
SelectionEntries ==
    {[idx |-> i, species |-> sp, id |-> 90 + i] :
        i \in 0..(MaxFileIons - 1), sp \in SelectionSpecies}
Selections == {q \in SeqsUpTo(SelectionEntries, MaxSelection) : Len(q) >= 1}
Removals == {q \in Selections : \A k \in 1..Len(q) : q[k].species = "Fe"}

FileLattice == Diag(RInt(2))
VacuumDepth == <<Zero, Zero, One>>

InitObj ==
    /\ ObjStart
    /\ QueryIdle
    /\ g0 = NoPoscar
    /\ gprev = NoPoscar
    /\ g = NoPoscar
    /\ steps = <<>>

\* Poscar.from_file: s_ions = Ions() takes the default index list, and every
\* s_ions.append(Ion(...), i) appends i to it
FromFile(s, file) ==
    /\ Budget
    /\ Free(s)
    /\ LET sps == FileIons(file)
           n == Len(sps)
       IN  /\ idxHeap' = [idxHeap EXCEPT ![DefaultIndices] = @ \o [k \in 1..n |-> k - 1]]
           /\ ionsHeap' = Append(ionsHeap,
                  [kind |-> "Ions", indices |-> DefaultIndices,
                   items |-> [k \in 1..n |-> BareIon(sps[k], 10 * s + k)]])
    /\ latHeap' = Append(latHeap, FileLattice)
    /\ poscars' = [poscars EXCEPT ![s] =
           [live |-> TRUE, species |-> file, ions |-> Len(ionsHeap) + 1,
            lattice |-> Len(latHeap) + 1, log |-> <<"from_file">>, clean |-> TRUE]]
    /\ last' = Done("from_file", s, FALSE, <<>>)
    /\ UNCHANGED <<modeVars, queryVars, io>>

\* Poscar(): every attribute is the default object
DefaultPoscar(s) ==
    /\ Budget
    /\ Free(s)
    /\ poscars' = [poscars EXCEPT ![s] =
           [live |-> TRUE, species |-> <<>>, ions |-> DefaultIons,
            lattice |-> DefaultLattice, log |-> <<"Poscar">>, clean |-> TRUE]]
    /\ last' = Done("Poscar", s, FALSE, <<>>)
    /\ UNCHANGED <<idxHeap, ionsHeap, latHeap, modeVars, queryVars, io>>

\* deepcopy(poscar): Ions.__deepcopy__ appends a copy of every ion the
\* iteration yields and deep-copies the index list; a plain list is copied as
\* a list; the lattice array is copied
DeepCopy(src, s) ==
    /\ Budget
    /\ Live(src)
    /\ Free(s)
    /\ LET o == ionsHeap[poscars[src].ions]
           yielded == Elements(o, idxHeap)
       IN  IF o.kind = "Ions"
           THEN /\ idxHeap' = Append(idxHeap, idxHeap[o.indices])
                /\ ionsHeap' = Append(ionsHeap,
                       [kind |-> "Ions", indices |-> Len(idxHeap) + 1,
                        items |-> [k \in 1..Len(yielded) |->
                                      BareIon(yielded[k].species, yielded[k].id)]])
           ELSE /\ idxHeap' = idxHeap
                /\ ionsHeap' = Append(ionsHeap, [o EXCEPT !.indices = 0])
    /\ latHeap' = Append(latHeap, latHeap[poscars[src].lattice])
    /\ poscars' = [poscars EXCEPT ![s] =
           [poscars[src] EXCEPT !.ions = Len(ionsHeap) + 1,
                                !.lattice = Len(latHeap) + 1,
                                !.log = <<"deepcopy">>]]
    /\ last' = Done("deepcopy", s, FALSE, <<>>)
    /\ UNCHANGED <<modeVars, queryVars, io>>

Target(s) == ionsHeap[poscars[s].ions]
Logged(s, op, ok) ==
    [poscars EXCEPT ![s].log = Append(@, op), ![s].clean = @ /\ ok]

\* poscar.ions.append(ion, index) and poscar.ions.append(ion): Ions.append
\* appends the index only when one is given; list.append takes one argument
IonsAppend(s, sp, withIndex) ==
    /\ Budget
    /\ Live(s)
    /\ LET o == Target(s)
           n == Len(o.items)
           bad == o.kind = "list" /\ withIndex
       IN  /\ idxHeap' = IF o.kind = "Ions" /\ withIndex
                         THEN [idxHeap EXCEPT ![o.indices] = Append(@, n)]
                         ELSE idxHeap
           /\ ionsHeap' = IF bad THEN ionsHeap
                          ELSE [ionsHeap EXCEPT ![poscars[s].ions].items =
                                   Append(@, BareIon(sp, 80 + n))]
           /\ poscars' = Logged(s, IF withIndex THEN "append" ELSE "append_ion", ~bad)
           /\ last' = Done("append", s, bad, <<>>)
    /\ UNCHANGED <<latHeap, modeVars, queryVars, io>>

\* poscar.ions.pop(i)
IonsPop(s, i) ==
    /\ Budget
    /\ Live(s)
    /\ LET o == Target(s)
           st == RemoveLoop(<<[idx |-> i]>>, o.kind,
                    [items |-> o.items, raised |-> FALSE,
                     idx |-> IF o.kind = "Ions" THEN idxHeap[o.indices] ELSE <<>>])
       IN  /\ idxHeap' = IF o.kind = "Ions"
                         THEN [idxHeap EXCEPT ![o.indices] = st.idx] ELSE idxHeap
           /\ ionsHeap' = [ionsHeap EXCEPT ![poscars[s].ions].items = st.items]
           /\ poscars' = Logged(s, "pop", ~st.raised)
           /\ last' = Done("pop", s, st.raised, <<>>)
    /\ UNCHANGED <<latHeap, modeVars, queryVars, io>>

\* the tail of edit_ions and remove_ions: _reconcile_ions on the list object
\* as the loop left it (items `items`, index lists `ih`); it rebinds
\* self.species and self.ions to a new plain list
Reconciled(s, op, items, ih, loopRaised) ==
    LET o == [Target(s) EXCEPT !.items = items]
        elems == Elements(o, ih)
        r == loopRaised \/ ReconcileRaises(elems)
    IN  /\ idxHeap' = ih
        /\ ionsHeap' =
              IF r THEN [ionsHeap EXCEPT ![poscars[s].ions] = o]
              ELSE Append([ionsHeap EXCEPT ![poscars[s].ions] = o],
                          [kind |-> "list", indices |-> 0, items |-> ReconcileIons(elems)])
        /\ poscars' =
              IF r THEN Logged(s, op, FALSE)
              ELSE [Logged(s, op, TRUE) EXCEPT ![s].species = ReconcileSpecies(elems),
                                               ![s].ions = Len(ionsHeap) + 1]
        /\ last' = Done(op, s, r, IF loopRaised THEN <<>> ELSE elems)

\* Poscar.edit_ions
EditIons(s, selection) ==
    /\ Budget
    /\ Live(s)
    /\ LET st == EditLoop(selection, [items |-> Target(s).items, raised |-> FALSE])
       IN  Reconciled(s, "edit_ions", st.items, idxHeap, st.raised)
    /\ UNCHANGED <<latHeap, modeVars, queryVars, io>>

\* Poscar.remove_ions
RemoveIons(s, selection) ==
    /\ Budget
    /\ Live(s)
    /\ LET o == Target(s)
           st == RemoveLoop(selection, o.kind,
                    [items |-> o.items, raised |-> FALSE,
                     idx |-> IF o.kind = "Ions" THEN idxHeap[o.indices] ELSE <<>>])
       IN  Reconciled(s, "remove_ions", st.items,
                      IF o.kind = "Ions" THEN [idxHeap EXCEPT ![o.indices] = st.idx]
                      ELSE idxHeap,
                      st.raised)
    /\ UNCHANGED <<latHeap, modeVars, queryVars, io>>

\* the inner loop of interpolate.run for one frame:
\*   for (j, ion1), (_, ion2) in zip(poscar1.ions, poscar2.ions):
\*       image_template.ions.append(new_ion, j)
\* image_template.ions is a fresh Ions(), so j goes onto the default index
\* list while the two anchors are being iterated
RECURSIVE FrameLoop(_, _, _, _, _, _)
FrameLoop(k, o1, o2, ih, items, tag) ==
    IF \/ k > Len(ih[o1.indices]) \/ k > Len(o1.items)
       \/ k > Len(ih[o2.indices]) \/ k > Len(o2.items)
    THEN [ih |-> ih, items |-> items]
    ELSE FrameLoop(k + 1, o1, o2,
                   [ih EXCEPT ![DefaultIndices] = Append(@, ih[o1.indices][k])],
                   Append(items, BareIon(o1.items[k].species, tag + k)), tag)

Anchor(a) == Live(a) /\ poscars[a].log = <<"from_file">>

\* one iteration of the frame loop of interpolate.run on the anchors a and b;
\* the template is deepcopy(poscar1) with its ions rebuilt in every iteration
InterpolateFrame(a, b, s) ==
    /\ Budget
    /\ a # b
    /\ Anchor(a)
    /\ Anchor(b)
    /\ Len(Target(a).items) = Len(Target(b).items)
    /\ Free(s) \/ (Live(s) /\ poscars[s].log[1] = "frame")
    /\ LET f == FrameLoop(1, Target(a), Target(b), idxHeap, <<>>, 10 * s)
       IN  /\ idxHeap' = f.ih
           /\ ionsHeap' = Append(ionsHeap,
                  [kind |-> "Ions", indices |-> DefaultIndices, items |-> f.items])
    /\ latHeap' = IF Free(s) THEN Append(latHeap, latHeap[poscars[a].lattice])
                  ELSE latHeap
    /\ poscars' = [poscars EXCEPT ![s] =
           [live |-> TRUE, species |-> poscars[a].species, ions |-> Len(ionsHeap) + 1,
            lattice |-> IF Free(s) THEN Len(latHeap) + 1 ELSE poscars[s].lattice,
            log |-> Append(poscars[s].log, "frame"), clean |-> TRUE]]
    /\ last' = Done("frame", s, FALSE, <<>>)
    /\ UNCHANGED <<modeVars, queryVars, io>>

\* vacuum.run: poscar.lattice += np.diag(depth), in place on the array
AddVacuum(s) ==
    /\ Budget
    /\ Live(s)
    /\ latHeap' = [latHeap EXCEPT ![poscars[s].lattice] =
           [i \in Axes |-> [j \in Axes |->
               IF i = j THEN RAdd(@[i][j], VacuumDepth[i]) ELSE @[i][j]]]]
    /\ poscars' = Logged(s, "vacuum", TRUE)
    /\ last' = Done("vacuum", s, FALSE, <<>>)
    /\ UNCHANGED <<idxHeap, ionsHeap, modeVars, queryVars, io>>

NextObj ==
    \/ \E s \in Slots : \E file \in Files : FromFile(s, file)
    \/ \E s \in Slots : DefaultPoscar(s)
    \/ \E src, s \in Slots : DeepCopy(src, s)
    \/ \E s \in Slots : \E sp \in {"Fe", "O"} : \E w \in BOOLEAN : IonsAppend(s, sp, w)
    \/ \E s \in Slots : \E i \in 0..(MaxFileIons - 1) : IonsPop(s, i)
    \/ \E s \in Slots : \E selection \in Selections : EditIons(s, selection)
    \/ \E s \in Slots : \E selection \in Removals : RemoveIons(s, selection)
    \/ \E a, b, s \in Slots : InterpolateFrame(a, b, s)
    \/ \E s \in Slots : AddVacuum(s)

SpecObj == InitObj /\ [][NextObj]_vars

(***************************************************************************)
(* Claims on the object model                                              *)
(***************************************************************************)
SeqRange(q) == {q[k] : k \in 1..Len(q)}

\* the Poscar in slot s came from from_file and has only been edited through
\* edit_ions and remove_ions, none of which raised
Edited(s) ==
    /\ Live(s)
    /\ poscars[s].clean
    /\ poscars[s].log[1] = "from_file"
    /\ \A k \in 2..Len(poscars[s].log) : poscars[s].log[k] \in {"edit_ions", "remove_ions"}

\* C1 as stated: for every Poscar reached from from_file by edit_ions and
\* remove_ions, the species counts sum to the number of ions, whatever the
\* capitalization of the species strings the edits supplied.
C1_SpeciesSum ==
    \A s \in Slots : Edited(s) =>
        SumCounts(poscars[s].species) = Len(Target(s).items)

NoRepeat(q) == \A i, j \in 1..Len(q) : i # j => q[i] # q[j]

\* the Ions objects a Poscar of the process holds, none of which had an ion
\* appended without an index
HeldIons ==
    {poscars[s].ions : s \in {r \in Slots : /\ Live(r)
                                            /\ poscars[r].clean
                                            /\ Target(r).kind = "Ions"
                                            /\ "append_ion" \notin SeqRange(poscars[r].log)}}

\* C2 as stated: every Ions object has as many indices as ions and no index
\* twice, under default construction, append, pop, deepcopy, repeated from_file
\* and the frames of interpolate.
C2_IonsPaired ==
    \A o \in HeldIons :
        /\ Len(ionsHeap[o].items) = Len(idxHeap[ionsHeap[o].indices])
        /\ NoRepeat(idxHeap[ionsHeap[o].indices])

\* what a Poscar's mutable attributes hold
View(p, ih, oh, lh) ==
    [species |-> p.species,
     ions |-> oh[p.ions].items,
     indices |-> IF oh[p.ions].kind = "Ions" THEN ih[oh[p.ions].indices] ELSE <<>>,
     lattice |-> lh[p.lattice]]

\* C3 as stated: two Poscar objects obtained independently share no mutable
\* state: an operation on one leaves the ions, index list, lattice and species
\* of every other one as they were.
C3_NoSharedState ==
    [][\A q \in Slots :
          (Live(q) /\ q # last'.slot) =>
              View(poscars'[q], idxHeap', ionsHeap', latHeap')
                  = View(poscars[q], idxHeap, ionsHeap, latHeap)]_vars

Occurrences(q, x) == Cardinality({k \in 1..Len(q) : q[k] = x})
KeyAt(species, sp) == CHOOSE k \in 1..Len(species) : species[k][1] = sp
FirstAt(elems, key) ==
    CHOOSE k \in 1..Len(elems) :
        /\ Capitalize(elems[k].species) = key
        /\ \A j \in 1..(k - 1) : Capitalize(elems[j].species) # key

\* C4 as stated: after _reconcile_ions the species keys are the capitalized
\* species in first-seen order with exact counts, the ions are in contiguous
\* blocks in that key order, and no ion is lost or duplicated.
C4_Reconcile ==
    (last.op \in {"edit_ions", "remove_ions"} /\ ~last.raised) =>
        LET elems == last.before
            species == poscars[last.slot].species
            ions == Target(last.slot).items
            keys == {Capitalize(elems[k].species) : k \in 1..Len(elems)}
        IN  /\ {species[k][1] : k \in 1..Len(species)} = keys
            /\ Len(species) = Cardinality(keys)
            /\ \A k \in 1..Len(species) :
                  species[k][2] =
                      Cardinality({j \in 1..Len(elems) :
                                      Capitalize(elems[j].species) = species[k][1]})
            /\ \A i, j \in 1..Len(species) :
                  i < j => FirstAt(elems, species[i][1]) < FirstAt(elems, species[j][1])
            /\ \A i, j \in 1..Len(ions) :
                  i < j => KeyAt(species, Capitalize(ions[i].species))
                               <= KeyAt(species, Capitalize(ions[j].species))
            /\ \A e \in SeqRange(elems) \cup SeqRange(ions) :
                  Occurrences(ions, e) = Occurrences(elems, e)

\* C5 as stated: after from_file, edit_ions and remove_ions, Poscar.ions is an
\* Ions object whose iteration yields the indices 0..N-1 in list order.
C5_MasterIons ==
    \A s \in Slots : Edited(s) =>
        /\ Target(s).kind = "Ions"
        /\ LET yielded == Elements(Target(s), idxHeap)
           IN  /\ Len(yielded) = Len(Target(s).items)
               /\ \A k \in 1..Len(yielded) : yielded[k].idx = k - 1

(***************************************************************************)
(* POSCAR text: Poscar.from_file and Poscar.to_string                      *)
(* (vasptypes.py:518-661).  A file is a record of its lines; a number in a *)
(* file is the rational its decimal text denotes.                          *)
(***************************************************************************)
\* "{:>11.8f}": eight decimals
Decimals == 8

RECURSIVE Pow10(_)
Pow10(k) == IF k = 0 THEN 1 ELSE 10 * Pow10(k - 1)

\* long division: <<floor(n * 10^k / d), remainder>> for n >= 0, from
\* st = <<n \div d, n % d>>
RECURSIVE Digits(_, _, _)
Digits(st, d, k) ==
    IF k = 0 THEN st
    ELSE Digits(<<st[1] * 10 + (st[2] * 10) \div d, (st[2] * 10) % d>>, d, k - 1)

\* |r| in units of 10^-Decimals, correctly rounded (ties to even)
RoundedUnits(r) ==
    LET st == Digits(<<Abs(r[1]) \div r[2], Abs(r[1]) % r[2]>>, r[2], Decimals)
    IN  IF 2 * st[2] > r[2] \/ (2 * st[2] = r[2] /\ st[1] % 2 = 1)
        THEN st[1] + 1 ELSE st[1]

\* the number the text "{:>11.8f}".format(r) denotes
Fmt(r) == Rat((IF r[1] < 0 THEN -1 ELSE 1) * RoundedUnits(r), Pow10(Decimals))

FmtVec(v) == [k \in 1..Len(v) |-> Fmt(v[k])]

\* str.strip() and str.lower().capitalize() on the strings of the model
Strip(c) == IF c = " slab " THEN "slab" ELSE c
CapitalizeLabel(sp) ==
    CASE sp \in {"fe", "FE", "Fe"} -> "Fe"
      [] sp \in {"o", "O"} -> "O"
      [] sp \in {"h", "H"} -> "H"
      [] OTHER -> sp

\* "H" + str(i + 1), the placeholder names of a file without a species line
Placeholder(i) == CASE i = 1 -> "H1" [] i = 2 -> "H2" [] OTHER -> "H3"
IsPlaceholder(sp) == sp \in {"H1", "H2", "H3"}

\* {sp: ct for sp, ct in zip(species, counts)}: a later entry for a key
\* replaces the count and keeps the key's place
RECURSIVE ZipDict(_, _, _)
ZipDict(species, counts, d) ==
    IF species = <<>> \/ counts = <<>> THEN d
    ELSE LET at == {k \in 1..Len(d) : d[k][1] = Head(species)}
         IN  ZipDict(Tail(species), Tail(counts),
                     IF at = {} THEN Append(d, <<Head(species), Head(counts)>>)
                     ELSE [d EXCEPT ![CHOOSE k \in at : TRUE][2] = Head(counts)])

\* from_file, the flags of one ion line: every flag that is not "F" reads True
FlagsOfLine(flags) == [k \in 1..Len(flags) |-> flags[k] # "F"]

\* from_file, the conditions under which it raises
ParseRaises(f) ==
    \/ Len(f.scale) \notin {1, 3}
    \/ f.species # <<>> /\ Len(f.species) # Len(f.counts)
    \/ ModeInitial(f.mode) \notin {"c", "k", "d"}

\* from_file, the labels: the capitalized species line, or placeholders
ParseLabels(f) ==
    IF f.species = <<>> THEN [k \in 1..Len(f.counts) |-> Placeholder(k)]
    ELSE [k \in 1..Len(f.species) |-> CapitalizeLabel(f.species[k])]

\* from_file on a file whose checks pass; `shared` is the default index list
\* of Ions.__init__ as the process left it
ParseFile(f, shared) ==
    LET species == ZipDict(ParseLabels(f), f.counts, <<>>)
        sps == FileIons(species)
    IN  [comment |-> Strip(f.comment),
         scale |-> IF Len(f.scale) = 1 THEN <<f.scale[1], f.scale[1], f.scale[1]>>
                   ELSE f.scale,
         lattice |-> f.lattice,
         species |-> species,
         selective_dynamics |-> f.sd,
         mode |-> IF ModeInitial(f.mode) = "d" THEN "Direct" ELSE "Cartesian",
         ions |-> [items |-> [k \in 1..Len(sps) |->
                                 [species |-> sps[k],
                                  position |-> f.lines[k].position,
                                  selective_dynamics |->
                                      IF f.sd THEN FlagsOfLine(f.lines[k].flags)
                                      ELSE <<TRUE, TRUE, TRUE>>]],
                   indices |-> shared \o [k \in 1..Len(sps) |-> k - 1]]]

\* np.allclose(a, b) with numpy's defaults rtol = 1e-5, atol = 1e-8
DefaultRtolDen == 100000
Close(a, b) ==
    RLe(RAbs(RSub(a, b)), RAdd(<<1, AtolDen>>, RMul(<<1, DefaultRtolDen>>, RAbs(b))))

\* np.allclose(self.scale, [self.scale[0]] * 3)
ScaleUniform(scale) == \A k \in 1..3 : Close(scale[k], scale[1])

\* the scale line of to_string
ScaleLine(scale) == IF ScaleUniform(scale) THEN <<Fmt(scale[1])>> ELSE FmtVec(scale)

\* the species line of to_string: left out when every key is a placeholder
SpeciesLine(species) ==
    IF \E k \in 1..Len(species) : ~IsPlaceholder(species[k][1])
    THEN [k \in 1..Len(species) |-> species[k][1]]
    ELSE <<>>

\* the ion lines of to_string: one per (index, ion) pair the iteration yields
IonLines(p) ==
    [k \in 1..IterLen(p.ions) |->
        [position |-> FmtVec(p.ions.items[k].position),
         flags |-> IF p.selective_dynamics
                   THEN [a \in 1..Len(p.ions.items[k].selective_dynamics) |->
                            IF p.ions.items[k].selective_dynamics[a] THEN "T" ELSE "F"]
                   ELSE <<>>]]

\* Poscar.to_string, as the record of the lines written
to_string(p) ==
    [comment |-> p.comment,
     scale |-> ScaleLine(p.scale),
     lattice |-> [i \in Axes |-> FmtVec(p.lattice[i])],
     species |-> SpeciesLine(p.species),
     counts |-> [k \in 1..Len(p.species) |-> p.species[k][2]],
     sd |-> p.selective_dynamics,
     mode |-> p.mode,
     lines |-> IonLines(p)]

\* Ion.list_to_bools: a character other than 'T' and 'F' builds a RuntimeError
\* that is never raised, and appends nothing
RECURSIVE ConvertedList(_)
ConvertedList(sd_tags) ==
    IF sd_tags = <<>> THEN <<>>
    ELSE (CASE Head(sd_tags) = "T" -> <<TRUE>>
            [] Head(sd_tags) = "F" -> <<FALSE>>
            [] OTHER -> <<>>) \o ConvertedList(Tail(sd_tags))

ListToBools(sd_tags) ==
    IF Len(sd_tags) # 3 THEN [raised |-> TRUE, value |-> <<>>]
    ELSE [raised |-> FALSE, value |-> ConvertedList(sd_tags)]

(***************************************************************************)
(* The file model: the commands that read and write files, step by step.   *)
(* interpolate (vapack_cli.py:383-483, vapack_lib.py:399-500)              *)
(***************************************************************************)
MaxInterpIons == 2
MaxImages == 1

InterpXs == {<<-1, 4>>, Zero, Quarter}
\* the ion lines of an anchor: the first ion at x, the others at `rest`
InterpLines(x, rest, n) ==
    [k \in 1..n |-> [position |-> IF k = 1 THEN <<x, Half, Half>> ELSE rest,
                     flags |-> <<>>]]

\* the anchor files: one species, a cubic cell of side 2
InterpFile(mode, lines) ==
    [comment |-> "slab", scale |-> <<One>>, lattice |-> Diag(RInt(2)),
     species |-> <<"Fe">>, counts |-> <<Len(lines)>>, sd |-> FALSE,
     mode |-> mode, lines |-> lines]

Resolvers == {"None", "first", "last"}

\* (np.sign(ion1.position) * np.sign(ion2.position)).sum() != 3
Crossed(r1, r2) ==
    RAdd(RAdd(RMul(RSign(r1[1]), RSign(r2[1])), RMul(RSign(r1[2]), RSign(r2[2]))),
         RMul(RSign(r1[3]), RSign(r2[3]))) # RInt(3)

\* the boundary test taken as "the signs differ on some axis"
CrossedBySign(r1, r2) == \E a \in Axes : RSign(r1[a]) # RSign(r2[a])

\* zip(poscar1.ions, poscar2.ions): the number of pairs of pairs
ZipLen(p1, p2) == Min(IterLen(p1.ions), IterLen(p2.ions))

\* boundary_resolution_indices: the indices of the ions that crossed
BoundaryIndices(p1, p2) ==
    LET Flagged(k) == Crossed(p1.ions.items[k].position, p2.ions.items[k].position)
        ks == SelectSeq([k \in 1..ZipLen(p1, p2) |-> k], Flagged)
    IN  [m \in 1..Len(ks) |-> p1.ions.indices[ks[m]]]

\* Ion(): the default position
DefaultPosition == <<Zero, Zero, Zero>>

\* the position of a flagged ion in frame i
ResolvedPosition(r1, r2, i, images, boundary_resolver) ==
    CASE boundary_resolver = "first" -> IF i < images + 1 THEN r1 ELSE r2
      [] boundary_resolver = "last" -> IF i = 0 THEN r1 ELSE r2
      [] OTHER -> DefaultPosition

\* the interpolation taken over `images` intervals instead of images + 1
LinearPositionShort(r1, r2, i, images) ==
    [a \in Axes |->
        RAdd(r1[a], RMul(RDiv(RSub(r2[a], r1[a]), RInt(images + 2)), RInt(i)))]

\* ion1.position + (ion2.position - ion1.position) / (images + 1) * i
LinearPosition(r1, r2, i, images) ==
    [a \in Axes |->
        RAdd(r1[a], RMul(RDiv(RSub(r2[a], r1[a]), RInt(images + 1)), RInt(i)))]

\* the ions of frame i: image_template.ions = Ions([], []) and one
\* append(new_ion, j) per pair of anchor ions
FrameIons(p1, p2, flagged, i, images, boundary_resolver, selective_dynamics) ==
    [items |-> [k \in 1..ZipLen(p1, p2) |->
                   [species |-> p1.ions.items[k].species,
                    position |->
                        IF SeqHas(flagged, p1.ions.indices[k])
                        THEN ResolvedPosition(p1.ions.items[k].position,
                                              p2.ions.items[k].position,
                                              i, images, boundary_resolver)
                        ELSE LinearPosition(p1.ions.items[k].position,
                                            p2.ions.items[k].position, i, images),
                    selective_dynamics |->
                        IF selective_dynamics
                           /\ p1.ions.items[k].selective_dynamics
                                  = p2.ions.items[k].selective_dynamics
                        THEN p1.ions.items[k].selective_dynamics
                        ELSE <<TRUE, TRUE, TRUE>>]],
     indices |-> [k \in 1..ZipLen(p1, p2) |-> p1.ions.indices[k]]]

\* a file that has been opened for writing and not written yet
EmptyText ==
    [comment |-> "", scale |-> <<>>, lattice |-> <<>>, species |-> <<>>, counts |-> <<>>,
     sd |-> FALSE, mode |-> "", lines |-> <<>>]

\* the two from_file calls of one process: both Ions share the default index
\* list, which holds the indices of both files after the second call
LoadAnchors(file1, file2) ==
    LET p1 == ParseFile(file1, <<>>)
        p2 == ParseFile(file2, p1.ions.indices)
    IN  <<[p1 EXCEPT !.ions.indices = p2.ions.indices], p2>>

\* if poscar2.mode != poscar1.mode: poscar2._toggle_mode()
SameSpace(anchors) ==
    IF anchors[2].mode # anchors[1].mode THEN <<anchors[1], ToggleMode(anchors[2])>>
    ELSE anchors

\* interpolate up to the frame loop: load, toggle, count check, boundary
\* detection with its warnings, template
InterpStarted(anchors, images, boundary_resolver, selective_dynamics) ==
    LET raised == Len(anchors[1].ions.items) # Len(anchors[2].ions.items)
        flagged == IF raised THEN <<>> ELSE BoundaryIndices(anchors[1], anchors[2])
    IN  [cmd |-> "interpolate",
         pc |-> IF raised THEN "raised" ELSE "frame",
         images |-> images,
         boundary_resolver |-> boundary_resolver,
         selective_dynamics |-> selective_dynamics,
         poscar1 |-> anchors[1],
         poscar2 |-> anchors[2],
         flagged |-> flagged,
         warnings |-> Len(flagged),
         i |-> 0,
         template |-> [anchors[1] EXCEPT
                          !.selective_dynamics = selective_dynamics /\ @],
         files |-> <<>>]

InitIO ==
    /\ ObjStart
    /\ QueryIdle
    /\ g0 = NoPoscar
    /\ gprev = g0
    /\ g = g0
    /\ steps = <<>>

ioRest == <<objVars, modeVars, queryVars>>

\* interpolate, lines 395-424
InterpLoad ==
    \E mode2 \in {"Direct", "Cartesian"}, x1, x2 \in InterpXs,
       n1, n2 \in 1..MaxInterpIons, images \in 0..MaxImages,
       boundary_resolver \in Resolvers, selective_dynamics \in BOOLEAN :
        /\ io.cmd = "none"
        /\ io' = InterpStarted(
                    SameSpace(LoadAnchors(
                        InterpFile("Direct", InterpLines(x1, <<Quarter, Half, Half>>, n1)),
                        InterpFile(mode2, InterpLines(x2, <<Half, Quarter, Half>>, n2)))),
                    images, boundary_resolver, selective_dynamics)
        /\ UNCHANGED ioRest

\* one pass of the inner loop, lines 428-479: the ions of frame i
InterpCompute ==
    /\ io.cmd = "interpolate"
    /\ io.pc = "frame"
    /\ io' = [io EXCEPT !.pc = "open",
                        !.template.ions =
                            FrameIons(io.poscar1, io.poscar2, io.flagged, io.i, io.images,
                                      io.boundary_resolver, io.selective_dynamics)]
    /\ UNCHANGED ioRest

\* to_file, the mkdir and file.open("w"): the frame's file exists and is empty
InterpOpen ==
    /\ io.cmd = "interpolate"
    /\ io.pc = "open"
    /\ io' = [io EXCEPT !.pc = "write", !.files = Append(@, EmptyText)]
    /\ UNCHANGED ioRest

\* to_file, f.write(self.to_string()), and the step of the outer loop
InterpWrite ==
    /\ io.cmd = "interpolate"
    /\ io.pc = "write"
    /\ io' = [io EXCEPT !.pc = IF io.i + 1 < io.images + 2 THEN "frame" ELSE "done",
                        !.i = @ + 1,
                        !.files[Len(io.files)] = to_string(io.template)]
    /\ UNCHANGED ioRest

(***************************************************************************)
(* potcar (vapack_lib.py:205-256) and Potcar (vasptypes.py:327-370).  The  *)
(* potential directory is a record: whether it exists, its name, the       *)
(* sub-directories it holds and the species whose POTCAR is in each.       *)
(***************************************************************************)
PotcarInputs == {"none", "POSCAR"}
PotentialLists == {<<>>, <<"Fe">>, <<"Fe", "O">>}
\* the species of the POSCAR the command reads when its input is not 'none'
PoscarSpecies == <<"Fe", "O">>

PotentialDirs ==
    [exists : BOOLEAN, name : {"potcar", "GGA"}, subdirs : SUBSET {"GGA", "LDA"},
     potcars : {{}, {"Fe"}, {"Fe", "O"}}]

\* the content of a POTCAR file before the command: none, or an earlier one
OldOutputs == {<<"absent">>, <<"old">>}

\* generate_string, the directory the species folders are looked up in:
\* <<"self">> is the given directory, <<"sub", d>> its sub-directory d
ResolvedDir(directory, potentials) ==
    IF directory.name = "GGA" THEN <<"self">>
    ELSE IF Len(potentials) > 1 THEN <<"sub", "GGA">> ELSE <<"sub", "LDA">>

\* generate_string raises: the resolved directory or a species' POTCAR is
\* missing
GenerateRaises(directory, potentials) ==
    LET d == ResolvedDir(directory, potentials)
    IN  \/ d[1] = "sub" /\ d[2] \notin directory.subdirs
        \/ \E k \in 1..Len(potentials) : potentials[k] \notin directory.potcars

\* generate_string, the concatenated POTCARs, as the species they are of
GenerateString(directory, potentials) == <<"potcar">> \o potentials

\* run, lines 219-236: the species list and Potcar.__init__
PotcarStarted(input, potentials, directory, no_write, output) ==
    LET species == IF input = "none" THEN potentials ELSE PoscarSpecies
        raised == (input = "none" /\ Len(potentials) < 1) \/ ~directory.exists
    IN  [cmd |-> "potcar",
         pc |-> IF raised THEN "raised" ELSE IF no_write THEN "done" ELSE "ready",
         input |-> input,
         species |-> species,
         directory |-> directory,
         no_write |-> no_write,
         output0 |-> output,
         output |-> output]

PotcarStart ==
    \E input \in PotcarInputs, potentials \in PotentialLists, directory \in PotentialDirs,
       no_write \in BOOLEAN, output \in OldOutputs :
        /\ io.cmd = "none"
        /\ io' = PotcarStarted(input, potentials, directory, no_write, output)
        /\ UNCHANGED ioRest

\* generate_file, the mkdir and output_path.open("w"): the file is empty
PotcarOpen ==
    /\ io.cmd = "potcar"
    /\ io.pc = "ready"
    /\ io' = [io EXCEPT !.pc = "generate", !.output = <<"empty">>]
    /\ UNCHANGED ioRest

\* generate_file, f.write(self.generate_string())
PotcarGenerate ==
    /\ io.cmd = "potcar"
    /\ io.pc = "generate"
    /\ io' = IF GenerateRaises(io.directory, io.species)
             THEN [io EXCEPT !.pc = "raised"]
             ELSE [io EXCEPT !.pc = "done",
                             !.output = GenerateString(io.directory, io.species)]
    /\ UNCHANGED ioRest

NextIO ==
    \/ InterpLoad
    \/ InterpCompute
    \/ InterpOpen
    \/ InterpWrite
    \/ PotcarStart
    \/ PotcarOpen
    \/ PotcarGenerate

SpecIO == InitIO /\ [][NextIO]_vars

(***************************************************************************)
(* Claims on the file model                                                *)
(***************************************************************************)
\* the anchors' positions of the k-th ion, in the space of the first anchor
Anchor1At(k) == io.poscar1.ions.items[k].position
Anchor2At(k) == io.poscar2.ions.items[k].position

NotFlagged(k) == ~SeqHas(io.flagged, io.poscar1.ions.indices[k])

\* anchor1 + (anchor2 - anchor1) * i / (images + 1)
ExpectedAt(k, i) ==
    [a \in Axes |->
        RAdd(Anchor1At(k)[a],
             RDiv(RMul(RSub(Anchor2At(k)[a], Anchor1At(k)[a]), RInt(i)),
                  RInt(io.images + 1)))]

Interpolating == io.cmd = "interpolate" /\ io.pc # "raised"

\* C14: interpolate writes exactly images + 2 frames, and an ion that is not
\* flagged is, in frame i, at anchor1 + (anchor2 - anchor1) * i / (images + 1),
\* in memory and (to 8 decimals) in the frame's file; frame 0 holds the first
\* anchor's position and frame images + 1 the second anchor's.
C14_LinearFrames ==
    Interpolating =>
        /\ Len(io.files) <= io.images + 2
        /\ io.pc = "done" =>
              /\ Len(io.files) = io.images + 2
              /\ \A f \in 1..Len(io.files) : io.files[f] # EmptyText
        /\ io.pc \in {"open", "write"} =>
              /\ Len(io.template.ions.items) = Len(io.poscar1.ions.items)
              /\ \A k \in 1..Len(io.poscar1.ions.items) : NotFlagged(k) =>
                    /\ io.template.ions.items[k].position = ExpectedAt(k, io.i)
                    /\ io.i = 0 => io.template.ions.items[k].position = Anchor1At(k)
                    /\ io.i = io.images + 1 =>
                          io.template.ions.items[k].position = Anchor2At(k)
        /\ \A f \in 1..Len(io.files) : io.files[f] # EmptyText =>
              /\ Len(io.files[f].lines) = Len(io.poscar1.ions.items)
              /\ \A k \in 1..Len(io.poscar1.ions.items) : NotFlagged(k) =>
                    /\ io.files[f].lines[k].position = FmtVec(ExpectedAt(k, f - 1))
                    /\ f = 1 => io.files[f].lines[k].position = FmtVec(Anchor1At(k))
                    /\ f = io.images + 2 =>
                          io.files[f].lines[k].position = FmtVec(Anchor2At(k))

\* an interpolation with an intermediate image is done, and it moved an ion
\* that is not flagged
C14_Witness ==
    /\ Interpolating
    /\ io.pc = "done"
    /\ io.images >= 1
    /\ \E k \in 1..Len(io.poscar1.ions.items) :
          /\ NotFlagged(k)
          /\ Anchor1At(k) # Anchor2At(k)
          /\ io.files[2].lines[k].position # io.files[1].lines[k].position

\* C15 as stated: an ion is flagged exactly when the sign of its position
\* differs between the anchors on some axis; an ion with the same sign on
\* every axis (a coordinate that is 0 in both included) is not flagged and is
\* interpolated linearly.
C15_FlaggedIffSignDiffers ==
    Interpolating =>
        \A k \in 1..Len(io.poscar1.ions.items) :
            /\ ~NotFlagged(k) <=> CrossedBySign(Anchor1At(k), Anchor2At(k))
            /\ (io.pc \in {"open", "write"} /\ ~CrossedBySign(Anchor1At(k), Anchor2At(k))) =>
                  io.template.ions.items[k].position = ExpectedAt(k, io.i)

\* C16 as stated: with a flagged ion and no boundary_resolver, interpolate
\* does not abort, prints a warning and writes all images + 2 frames, and for
\* that ion frame 0 holds the first anchor's position and frame images + 1
\* the second anchor's.
C16_UnresolvedCrossing ==
    (Interpolating /\ io.boundary_resolver = "None" /\ io.flagged # <<>>) =>
        /\ io.warnings >= 1
        /\ io.pc = "done" =>
              /\ Len(io.files) = io.images + 2
              /\ \A k \in 1..Len(io.poscar1.ions.items) : ~NotFlagged(k) =>
                    /\ io.files[1].lines[k].position = FmtVec(Anchor1At(k))
                    /\ io.files[io.images + 2].lines[k].position = FmtVec(Anchor2At(k))

\* C17 as stated: a precondition failure (ion counts that differ; a missing
\* potential directory, GGA/LDA sub-directory or species POTCAR; input 'none'
\* with no potentials) raises before any output file is created, truncated
\* or written.
C17_RaisesBeforeOutput ==
    /\ (io.cmd = "interpolate" /\ io.pc = "raised") => io.files = <<>>
    /\ (io.cmd = "potcar" /\ io.pc = "raised") => io.output = io.output0

\* C18 as stated: all validation and computation is complete before the first
\* output file is opened: while a frame is still to be computed, or the text
\* of a file is still to be generated, no output file has been opened.
C18_ComputeBeforeOpen ==
    /\ (io.cmd = "interpolate" /\ io.pc \in {"frame", "write"}) => io.files = <<>>
    /\ (io.cmd = "potcar" /\ io.pc = "generate") => io.output = io.output0

(***************************************************************************)
(* The text model: from_file, to_string and from_file again on one file,   *)
(* and list_to_bools on a tuple of tags.                                   *)
(***************************************************************************)
TextComments == {"slab", " slab "}
TextScales == {<<One>>, <<One, One, One>>, <<One, Rat(3, 2), One>>,
               <<One, Rat(200001, 200000), One>>, <<One, One>>}
\* the species line (empty when the file has none) and the counts line
TextHeads ==
    [species : {<<>>, <<"Fe">>, <<"fe", "O">>, <<"Fe", "Fe">>},
     counts : {<<1>>, <<2>>, <<1, 1>>}]
\* the flags of every ion line: none without the selective-dynamics block
TextFlags == {<<>>, <<"T", "F", "T">>, <<"T", "X", "F">>, <<"T", "F">>}
TextModes == {"Direct", "c"}

RECURSIVE SumSeq(_)
SumSeq(q) == IF q = <<>> THEN 0 ELSE Head(q) + SumSeq(Tail(q))

TextFile(comment, scale, head, flags, mode) ==
    [comment |-> comment, scale |-> scale, lattice |-> Diag(RInt(2)),
     species |-> head.species, counts |-> head.counts, sd |-> flags # <<>>,
     mode |-> mode,
     lines |-> [k \in 1..SumSeq(head.counts) |->
                   [position |-> <<Rat(k, 8), Quarter, Half>>, flags |-> flags]]]

\* to_string raises: an ion with fewer than three flags leaves format()
\* without an argument
ToStringRaises(p) ==
    p.selective_dynamics
        /\ \E k \in 1..IterLen(p.ions) : Len(p.ions.items[k].selective_dynamics) < 3

NoText == [cmd |-> "text", pc |-> "raised", file |-> EmptyText, poscar |-> NoPoscar,
           text |-> EmptyText, again |-> NoPoscar]

\* Poscar.from_file on a file
FromFileCall ==
    \E comment \in TextComments, scale \in TextScales, head \in TextHeads,
       flags \in TextFlags, mode \in TextModes :
        LET f == TextFile(comment, scale, head, flags, mode)
        IN  /\ io.cmd = "none"
            /\ io' = IF ParseRaises(f) THEN [NoText EXCEPT !.file = f]
                     ELSE [NoText EXCEPT !.file = f, !.pc = "parsed",
                                         !.poscar = ParseFile(f, <<>>)]
            /\ UNCHANGED ioRest

\* Poscar.to_string on the parsed Poscar
ToStringCall ==
    /\ io.cmd = "text"
    /\ io.pc = "parsed"
    /\ io' = IF ToStringRaises(io.poscar) THEN [io EXCEPT !.pc = "raised"]
             ELSE [io EXCEPT !.pc = "written", !.text = to_string(io.poscar)]
    /\ UNCHANGED ioRest

\* Poscar.from_file on the text written, in the same process
FromTextCall ==
    /\ io.cmd = "text"
    /\ io.pc = "written"
    /\ io' = IF ParseRaises(io.text) THEN [io EXCEPT !.pc = "raised"]
             ELSE [io EXCEPT !.pc = "reparsed",
                             !.poscar = LoadAnchors(io.file, io.text)[1],
                             !.again = LoadAnchors(io.file, io.text)[2]]
    /\ UNCHANGED ioRest

TagLists == {q \in SeqsUpTo({"T", "F", "X"}, 4) : Len(q) >= 2}

\* Ion.list_to_bools on a tuple of tags
ListToBoolsCall ==
    \E sd_tags \in TagLists :
        /\ io.cmd = "none"
        /\ io' = [cmd |-> "list_to_bools", sd_tags |-> sd_tags,
                  result |-> ListToBools(sd_tags)]
        /\ UNCHANGED ioRest

NextText == FromFileCall \/ ToStringCall \/ FromTextCall \/ ListToBoolsCall

SpecText == InitIO /\ [][NextText]_vars

(***************************************************************************)
(* Claims on the text model                                                *)
(***************************************************************************)
GoodFlags(flags) == Len(flags) = 3 /\ \A k \in 1..3 : flags[k] \in {"T", "F"}

\* C19 as stated: a malformed selective-dynamics flag is an error:
\* list_to_bools raises when its input has not length 3 or holds a character
\* other than 'T' and 'F' and otherwise returns exactly 3 booleans, and
\* from_file fails on an ion line whose three flags are not each 'T' or 'F'.
C19_MalformedFlagRaises ==
    /\ io.cmd = "list_to_bools" =>
          /\ io.result.raised <=> ~GoodFlags(io.sd_tags)
          /\ ~io.result.raised => Len(io.result.value) = 3
    /\ (io.cmd = "text" /\ io.file.sd
          /\ \E k \in 1..Len(io.file.lines) : ~GoodFlags(io.file.lines[k].flags)) =>
          io.pc = "raised"

\* a structure file from_file has no reason to refuse
WellFormed(f) ==
    /\ Len(f.scale) \in {1, 3}
    /\ f.species # <<>> => Len(f.species) = Len(f.counts)
    /\ SumSeq(f.counts) = Len(f.lines)
    /\ f.sd => \A k \in 1..Len(f.lines) : GoodFlags(f.lines[k].flags)

ThreeFactors(scale) == IF Len(scale) = 1 THEN <<scale[1], scale[1], scale[1]>> ELSE scale

\* C20 as stated: for a well-formed file, from_file followed by to_string
\* reproduces the comment, the scale factors, the lattice, the species labels
\* in order with their counts (no species line when the file had none), the
\* selective-dynamics block, the mode and every ion's coordinates to 8
\* decimals with its flags; parsing the text again yields an equal Poscar.
\* Labels are compared capitalized, the comment stripped, the mode by its
\* initial, and a single scale factor as three equal ones.
C20_RoundTrip ==
    (io.cmd = "text" /\ WellFormed(io.file)) =>
        /\ io.pc # "raised"
        /\ io.pc \in {"written", "reparsed"} =>
              /\ io.text.comment = Strip(io.file.comment)
              /\ Len(io.text.scale) \in {1, 3}
              /\ ThreeFactors(io.text.scale) = FmtVec(ThreeFactors(io.file.scale))
              /\ io.text.lattice = [i \in Axes |-> FmtVec(io.file.lattice[i])]
              /\ io.text.species =
                    [k \in 1..Len(io.file.species) |-> CapitalizeLabel(io.file.species[k])]
              /\ io.text.counts = io.file.counts
              /\ io.text.sd = io.file.sd
              /\ ModeInitial(io.text.mode) = ModeInitial(io.file.mode)
              /\ Len(io.text.lines) = Len(io.file.lines)
              /\ \A k \in 1..Len(io.file.lines) :
                    /\ io.text.lines[k].position = FmtVec(io.file.lines[k].position)
                    /\ io.text.lines[k].flags = io.file.lines[k].flags
        /\ io.pc = "reparsed" =>
              /\ [io.again EXCEPT !.ions = <<>>] = [io.poscar EXCEPT !.ions = <<>>]
              /\ IterPairs(io.again.ions) = IterPairs(io.poscar.ions)

(***************************************************************************)
(* The command model: slabfreeze, vacuum and convert, each from its        *)
(* from_file to its to_file (vapack_cli.py:36-136, 236-350;                *)
(* vapack_lib.py:60-163, 262-361)                                          *)
(***************************************************************************)
MaxSlabIons == 2

SlabXs == {Quarter, One, Rat(3, 2)}
SlabFlags == {<<>>, <<"F", "F", "T">>}
SlabRanges == {NoRange, <<Zero, Half>>, <<One, RInt(2)>>}
SlabModes == {"None", "c", "d", "k"}
SlabDynamics == {<<"F", "F", "F">>, <<"T", "F", "T">>}
VacuumScales == {<<One>>, <<RInt(2)>>}
VacuumDepths == {<<Zero, Zero, One>>, <<One, One, Half>>}
ConvertModes == {"None", "c", "d"}

\* the input file: the first ion at x, the others at 3/4
CmdFile(mode, x, n, flags, scale, lattice) ==
    [comment |-> "slab", scale |-> scale, lattice |-> lattice,
     species |-> <<"Fe">>, counts |-> <<n>>, sd |-> flags # <<>>, mode |-> mode,
     lines |-> [k \in 1..n |->
                   [position |-> <<IF k = 1 THEN x ELSE Rat(3, 4), Half, Half>>,
                    flags |-> flags]]]

\* the output file of a command: absent, opened and empty, or written
NoOutput == [state |-> "absent", text |-> EmptyText]

\* slabfreeze, the loop over enumerate(poscar.ions) and the header flag
Slabfreeze(poscar, selection, dynamics, preserve) ==
    [poscar EXCEPT
        !.ions.items =
            [k \in 1..Len(poscar.ions.items) |->
                IF k <= IterLen(poscar.ions)
                THEN IF SeqHas(selection.indices, k - 1)
                     THEN [poscar.ions.items[k] EXCEPT
                              !.selective_dynamics = ListToBools(dynamics).value]
                     ELSE IF preserve THEN poscar.ions.items[k]
                     ELSE [poscar.ions.items[k] EXCEPT
                              !.selective_dynamics =
                                  ListToBools(<<"T", "T", "T">>).value]
                ELSE poscar.ions.items[k]],
        !.selective_dynamics = TRUE]

\* slabfreeze up to its to_file: the no_write argument is not read
SlabfreezeRun ==
    \E file_mode \in {"Direct", "Cartesian"}, x \in SlabXs, n \in 1..MaxSlabIons,
       flags \in SlabFlags, x_range \in SlabRanges, mode \in SlabModes,
       dynamics \in SlabDynamics, preserve \in BOOLEAN, no_write \in BOOLEAN :
        LET poscar == ParseFile(CmdFile(file_mode, x, n, flags, <<One>>, Diag(RInt(2))), <<>>)
            selection == GetSelectBox(poscar, x_range, NoRange, NoRange, mode)
        IN  /\ io.cmd = "none"
            /\ io' = [cmd |-> "slabfreeze", pc |-> "open", no_write |-> no_write,
                      before |-> poscar,
                      poscar |-> Slabfreeze(poscar, selection, dynamics, preserve),
                      selection |-> selection,
                      args |-> [x_range |-> x_range, mode |-> mode,
                                dynamics |-> dynamics, preserve |-> preserve],
                      output |-> NoOutput]
            /\ UNCHANGED ioRest

\* poscar.lattice += np.diag(depth)
AddDepth(lattice, depth) ==
    [i \in Axes |-> [j \in Axes |->
        IF i = j THEN RAdd(lattice[i][j], depth[i]) ELSE lattice[i][j]]]

\* vacuum up to its to_file
VacuumRun ==
    \E file_mode \in {"Direct", "Cartesian"}, x \in SlabXs, n \in 1..MaxSlabIons,
       scale \in VacuumScales, lattice \in {Diag(RInt(2)), Sheared},
       depth \in VacuumDepths, no_write \in BOOLEAN :
        LET poscar == ParseFile(CmdFile(file_mode, x, n, <<>>, scale, lattice), <<>>)
            cartesian == ConvertToCartesian(poscar)
        IN  /\ io.cmd = "none"
            /\ io' = [cmd |-> "vacuum", pc |-> IF no_write THEN "done" ELSE "open",
                      no_write |-> no_write,
                      before |-> poscar,
                      poscar |-> [cartesian EXCEPT
                                     !.lattice = AddDepth(cartesian.lattice, depth)],
                      selection |-> NoSelection,
                      args |-> [depth |-> depth],
                      output |-> NoOutput]
            /\ UNCHANGED ioRest

\* convert up to its to_file
ConvertRun ==
    \E file_mode \in {"Direct", "Cartesian"}, x \in SlabXs, n \in 1..MaxSlabIons,
       mode \in ConvertModes, no_write \in BOOLEAN :
        LET poscar == ParseFile(CmdFile(file_mode, x, n, <<>>, <<One>>, Diag(RInt(2))), <<>>)
        IN  /\ io.cmd = "none"
            /\ io' = [cmd |-> "convert", pc |-> IF no_write THEN "done" ELSE "open",
                      no_write |-> no_write,
                      before |-> poscar,
                      poscar |-> CASE mode = "None" -> ToggleMode(poscar)
                                   [] mode = "c" -> ConvertToCartesian(poscar)
                                   [] OTHER -> ConvertToDirect(poscar),
                      selection |-> NoSelection,
                      args |-> [mode |-> mode],
                      output |-> NoOutput]
            /\ UNCHANGED ioRest

\* to_file, the mkdir and file.open("w")
CmdOpen ==
    /\ io.cmd \in {"slabfreeze", "vacuum", "convert"}
    /\ io.pc = "open"
    /\ io' = [io EXCEPT !.pc = "write", !.output.state = "empty"]
    /\ UNCHANGED ioRest

\* to_file, f.write(self.to_string())
CmdWrite ==
    /\ io.cmd \in {"slabfreeze", "vacuum", "convert"}
    /\ io.pc = "write"
    /\ io' = IF ToStringRaises(io.poscar) THEN [io EXCEPT !.pc = "raised"]
             ELSE [io EXCEPT !.pc = "done",
                             !.output = [state |-> "written", text |-> to_string(io.poscar)]]
    /\ UNCHANGED ioRest

NextCmd == SlabfreezeRun \/ VacuumRun \/ ConvertRun \/ CmdOpen \/ CmdWrite

SpecCmd == InitIO /\ [][NextCmd]_vars

(***************************************************************************)
(* Claims on the command model                                             *)
(***************************************************************************)
\* the coordinates of the k-th ion of p in the mode the box is given in:
\* Cartesian for 'c' and 'k', Direct for 'd', the Poscar's own when not given
ChosenCoords(p, mode, k) ==
    IF ModeInitial(ResolveMode(p, mode)) \in {"c", "k"}
    THEN IF is_cartesian(p) THEN p.ions.items[k].position
         ELSE MatVec(Transpose(p.lattice), p.ions.items[k].position)
    ELSE DirectOf(p, k)

FlagsOf(dynamics) == [a \in 1..Len(dynamics) |-> dynamics[a] = "T"]

\* C21 as stated: slabfreeze gives every ion inside the closed ranges, read in
\* the chosen mode, the flags d; every other ion gets (T,T,T) with preserve
\* off and keeps its flags with preserve on; selective_dynamics becomes
\* enabled; no position, species, lattice or mode changes.
C21_Slabfreeze ==
    io.cmd = "slabfreeze" =>
        /\ \A k \in 1..Len(io.before.ions.items) :
              LET was == io.before.ions.items[k]
                  now == io.poscar.ions.items[k]
              IN  /\ now.position = was.position
                  /\ now.species = was.species
                  /\ now.selective_dynamics =
                        IF InRange(io.args.x_range,
                                   ChosenCoords(io.before, io.args.mode, k)[1])
                        THEN FlagsOf(io.args.dynamics)
                        ELSE IF io.args.preserve THEN was.selective_dynamics
                        ELSE <<TRUE, TRUE, TRUE>>
        /\ Len(io.poscar.ions.items) = Len(io.before.ions.items)
        /\ io.poscar.selective_dynamics
        /\ io.poscar.lattice = io.before.lattice
        /\ io.poscar.mode = io.before.mode

Cross(u, v) ==
    <<RSub(RMul(u[2], v[3]), RMul(u[3], v[2])),
      RSub(RMul(u[3], v[1]), RMul(u[1], v[3])),
      RSub(RMul(u[1], v[2]), RMul(u[2], v[1]))>>

\* e is a vector along v (not against it) of length len
Along(e, v, len) ==
    /\ Cross(e, v) = <<Zero, Zero, Zero>>
    /\ RLe(Zero, Dot(e, v))
    /\ Dot(e, e) = RMul(len, len)

\* C22 as stated: vacuum with depth (d0,d1,d2) lengthens lattice vector i along
\* its own direction by depth[i] / scale[i], whatever the lattice and the
\* scale factors, leaves every ion's Cartesian position unchanged and leaves
\* the scale factors unchanged.
C22_Vacuum ==
    io.cmd = "vacuum" =>
        /\ \A i \in Axes :
              Along(VSub(io.poscar.lattice[i], io.before.lattice[i]), io.before.lattice[i],
                    RDiv(io.args.depth[i], io.before.scale[i]))
        /\ io.poscar.ions = ConvertToCartesian(io.before).ions
        /\ io.poscar.scale = io.before.scale

\* C24 as stated: when writing is disabled, no subcommand creates or modifies
\* any file or directory.
C24_NoWrite ==
    (io.cmd \in {"slabfreeze", "vacuum", "convert"} /\ io.no_write) =>
        io.output = NoOutput

(***************************************************************************)
(* parse_incar (vasp_parsers.py:5-60).  A line is the sequence of its      *)
(* characters; Python offset i is sequence position i + 1.                 *)
(***************************************************************************)
MaxIncarTail == 4

\* str.find(ch): the offset of the first ch, or -1
RECURSIVE FindFrom(_, _, _)
FindFrom(line, ch, k) ==
    IF k > Len(line) THEN -1
    ELSE IF line[k] = ch THEN k - 1
    ELSE FindFrom(line, ch, k + 1)

Find(line, ch) == FindFrom(line, ch, 1)

\* line[a:b] for 0 <= a and 0 <= b
Slice(line, a, b) == SubSeq(line, a + 1, Min(b, Len(line)))

\* str.strip()
RECURSIVE StripLeft(_)
StripLeft(line) ==
    IF line # <<>> /\ Head(line) = " " THEN StripLeft(Tail(line)) ELSE line

RECURSIVE StripRight(_)
StripRight(line) ==
    IF line # <<>> /\ line[Len(line)] = " "
    THEN StripRight(SubSeq(line, 1, Len(line) - 1)) ELSE line

StripChars(line) == StripRight(StripLeft(line))

\* len(key.split()) > 1: the stripped key holds a space
HasSpace(key) == \E k \in 1..Len(key) : key[k] = " "

\* value_end = max([line.find('#'), line.find('!')]), len(line) + 1 when
\* neither marker is found
ValueEnd(line) ==
    LET h == Find(line, "#")
        b == Find(line, "!")
        value_end == IF h > b THEN h ELSE b
    IN  IF value_end = -1 THEN Len(line) + 1 ELSE value_end

\* the body of the loop for one stripped line that is not a comment line:
\* the key and value, or the RuntimeError
ParseTag(line) ==
    LET key_end == Find(line, "=")
        key == StripChars(Slice(line, 0, key_end))
        value == StripChars(Slice(line, key_end + 1, ValueEnd(line)))
    IN  IF key_end < 0 \/ Len(key) < 1 \/ HasSpace(key) \/ Len(value) < 1
        THEN [raised |-> TRUE, key |-> <<>>, value |-> <<>>]
        ELSE [raised |-> FALSE, key |-> key, value |-> value]

\* incar_dict[key] = value
DictSet(d, key, value) ==
    IF \E k \in 1..Len(d) : d[k][1] = key
    THEN [k \in 1..Len(d) |-> IF d[k][1] = key THEN <<key, value>> ELSE d[k]]
    ELSE Append(d, <<key, value>>)

\* parse_incar(file): the value returned is the dictionary alone
RECURSIVE ParseIncarLines(_, _)
ParseIncarLines(lines, incar_dict) ==
    IF lines = <<>> THEN [raised |-> FALSE, returned |-> <<incar_dict>>]
    ELSE LET line == StripChars(Head(lines))
         IN  IF line[1] \in {"#", "!"} THEN ParseIncarLines(Tail(lines), incar_dict)
             ELSE IF ParseTag(line).raised THEN [raised |-> TRUE, returned |-> <<>>]
             ELSE ParseIncarLines(Tail(lines),
                                  DictSet(incar_dict, ParseTag(line).key, ParseTag(line).value))

parse_incar(lines) == ParseIncarLines(lines, <<>>)

\* the files of the model: a tag line "A = 1" followed by up to MaxIncarTail
\* characters, alone or after a comment line
IncarTails == SeqsUpTo({"#", "!", "=", "c"}, MaxIncarTail)
IncarFiles ==
    {<<<<"A", " ", "=", " ", "1", " ">> \o tail>> : tail \in IncarTails}
        \cup {<< <<"#", "c">>, <<"A", "=", "1">> \o tail >> : tail \in SeqsUpTo({"#", "!"}, 2)}

ParseIncarCall ==
    \E lines \in IncarFiles :
        /\ io.cmd = "none"
        /\ io' = [cmd |-> "parse_incar", lines |-> lines, result |-> parse_incar(lines)]
        /\ UNCHANGED ioRest

SpecIncar == InitIO /\ [][ParseIncarCall]_vars

\* the first comment marker of a line: the offset of the first '#' or '!'
FirstMarker(line) ==
    LET h == Find(line, "#")
        b == Find(line, "!")
    IN  IF h = -1 THEN b ELSE IF b = -1 THEN h ELSE Min(h, b)

TagLine(lines) == StripChars(lines[Len(lines)])

\* C23 as stated: parse_incar returns the tag-to-value mapping together with
\* the list of comment texts; the value of a tag line is the text between '='
\* and the first comment marker, the comment everything after that marker,
\* whatever further '#', '=' or '!' the comment holds.
C23_ParseIncar ==
    io.cmd = "parse_incar" =>
        LET line == TagLine(io.lines)
            marker == FirstMarker(line)
        IN  /\ ~io.result.raised
            /\ Len(io.result.returned) = 2
            /\ io.result.returned[1] =
                  << <<<<"A">>,
                       StripChars(Slice(line, Find(line, "=") + 1,
                                        IF marker = -1 THEN Len(line) ELSE marker))>> >>
            /\ io.result.returned[2] =
                  <<IF marker = -1 THEN <<>>
                    ELSE StripChars(Slice(line, marker + 1, Len(line)))>>

(***************************************************************************)
(* vasphash (vasphash.py:27-62): the loop over the simulation directories. *)
(* The tag file of a directory is absent, or holds a text.                 *)
(***************************************************************************)
MaxSimDirs == 3

\* a tag file: <<"absent">>, or <<"file", text>> with text "old", "" or a hash
NoTag == <<"absent">>
OldTag == <<"file", "old">>
\* arbitrary_hash()[:maxlen]: a hash of the time and a random number
Hashes == {"hash1", "hash2"}

HashStart ==
    \E tags \in {q \in SeqsUpTo({NoTag, OldTag}, MaxSimDirs) : Len(q) >= 1},
       force \in BOOLEAN, dryrun \in BOOLEAN :
        /\ io.cmd = "none"
        /\ io' = [cmd |-> "vasphash", pc |-> "next", force |-> force, dryrun |-> dryrun,
                  tags0 |-> tags, tags |-> tags, i |-> 1, hash |-> ""]
        /\ UNCHANGED ioRest

\* if dst_file.exists() and not force: continue
HashSkip ==
    /\ io.cmd = "vasphash"
    /\ io.pc = "next"
    /\ io.i <= Len(io.tags)
    /\ io.tags[io.i] # NoTag /\ ~io.force
    /\ io' = [io EXCEPT !.i = @ + 1]
    /\ UNCHANGED ioRest

\* with dst_file.open('w') as f: dst_hash = arbitrary_hash()[:maxlen]
HashOpen ==
    \E dst_hash \in Hashes :
        /\ io.cmd = "vasphash"
        /\ io.pc = "next"
        /\ io.i <= Len(io.tags)
        /\ io.tags[io.i] = NoTag \/ io.force
        /\ io' = [io EXCEPT !.pc = "opened", !.tags[io.i] = <<"file", "">>,
                            !.hash = dst_hash]
        /\ UNCHANGED ioRest

\* if not dryrun: f.write(dst_hash)
HashWrite ==
    /\ io.cmd = "vasphash"
    /\ io.pc = "opened"
    /\ io' = [io EXCEPT !.pc = "next", !.i = @ + 1, !.hash = "",
                        !.tags[io.i] = IF io.dryrun THEN @ ELSE <<"file", io.hash>>]
    /\ UNCHANGED ioRest

NextHash == HashStart \/ HashSkip \/ HashOpen \/ HashWrite

SpecHash == InitIO /\ [][NextHash]_vars

\* C25 as stated: vasphash with --dryrun creates, truncates or changes no tag
\* file, with or without --force; and without --force an existing tag file is
\* never modified.
C25_DryRun ==
    io.cmd = "vasphash" =>
        /\ io.dryrun => io.tags = io.tags0
        /\ ~io.force =>
              \A k \in 1..Len(io.tags) : io.tags0[k] # NoTag => io.tags[k] = io.tags0[k]

(***************************************************************************)
(* Poscar.remove_ions on a Poscar just read by from_file                   *)
(* (vasptypes.py:698-704, 116-118, 408-430)                                *)
(***************************************************************************)
MaxRemoveIons == 4

\* the species dict of the file read: Fe and O ions, Fe first
RemoveFiles ==
    {f \in {<<<<"Fe", a>>>> : a \in 1..MaxRemoveIons}
             \cup {<<<<"Fe", a>>, <<"O", b>>>> : a, b \in 1..MaxRemoveIons} :
        SumCounts(f) <= MaxRemoveIons}

\* the selections: distinct master indices of the Poscar, in any order
IndexSelections(n) ==
    {q \in SeqsUpTo(0..(n - 1), n) :
        Len(q) >= 1 /\ \A i, j \in 1..Len(q) : i # j => q[i] # q[j]}

\* remove_ions(ions) on the Poscar from_file made of `file`, first in its
\* process: the pops of the loop, then _reconcile_ions.  When a pop raises,
\* _reconcile_ions is not reached: the species stay the file's and the Poscar
\* holds the ions not yet popped.
RemoveResult(file, selection) ==
    LET sps == FileIons(file)
        st == RemoveLoop([k \in 1..Len(selection) |-> [idx |-> selection[k]]], "Ions",
                         [items |-> [k \in 1..Len(sps) |-> BareIon(sps[k], k - 1)],
                          raised |-> FALSE,
                          idx |-> [k \in 1..Len(sps) |-> k - 1]])
        elems == Elements([kind |-> "Ions", indices |-> 1, items |-> st.items], <<st.idx>>)
    IN  IF st.raised THEN [raised |-> TRUE, species |-> file, ions |-> elems]
        ELSE [raised |-> FALSE, species |-> ReconcileSpecies(elems),
              ions |-> ReconcileIons(elems)]

RemoveCall ==
    \E file \in RemoveFiles :
        \E selection \in IndexSelections(SumCounts(file)) :
            /\ io.cmd = "none"
            /\ io' = [cmd |-> "remove_ions", file |-> file, selection |-> selection,
                      result |-> RemoveResult(file, selection)]
            /\ UNCHANGED ioRest

SpecRemove == InitIO /\ [][RemoveCall]_vars

\* C26 as stated: remove_ions removes exactly the ions whose master indices
\* are in the selection, whatever its size and order: the Poscar holds the
\* ions that were at the other indices, in their previous order.
C26_RemoveExact ==
    io.cmd = "remove_ions" =>
        /\ ~io.result.raised
        /\ [k \in 1..Len(io.result.ions) |-> io.result.ions[k].id]
              = SelectSeq([k \in 1..SumCounts(io.file) |-> k - 1],
                          LAMBDA i : ~SeqHas(io.selection, i))

(***************************************************************************)
(* The aliasing model: a query of the chain model, then the caller changes *)
(* one of the ions it was handed.  g is the source Poscar as it is now.    *)
(***************************************************************************)
\* whether the Ion objects a query returns are the source's own:
\* get_select_chain puts poscar.ions[start_index] and poscar.ions[j] in its
\* selection; the other queries select from a deepcopy of the Poscar
ReturnsSourceIons(op) == op = "chain"

\* selection[k].species = "X" by the caller, after the query returned
MutateReturned ==
    \E k \in 1..Len(sel.items) :
        /\ call.op # "none"
        /\ steps = <<>>
        /\ steps' = <<"mutate">>
        /\ sel' = [sel EXCEPT !.items[k].species = "X"]
        /\ g' = IF ReturnsSourceIons(call.op)
                THEN [g EXCEPT !.ions.items[sel.indices[k] + 1].species = "X"]
                ELSE g
        /\ UNCHANGED <<g0, gprev, call, centered, objVars, io>>

NextAlias == NextChain \/ MutateReturned

SpecAlias == InitChain /\ [][NextAlias]_vars

\* C27 as stated: the ions the queries return are copies: changing a returned
\* ion leaves the source Poscar unchanged, and no query changes the source.
C27_ReturnsCopies == g = g0

(***************************************************************************)
(* The chain run: get_select_chain one pass of its outer loop at a time.   *)
(* sel is the growing selection, io.k the position of the loop in it.      *)
(***************************************************************************)
ChainBegin ==
    \E start_index \in 0..(Len(g0.ions.items) - 1), jump_distance \in ChainDistances,
       extent \in ChainExtents, species_blacklist \in ChainSpeciesBlacklists,
       index_blacklist \in ChainIndexBlacklists, hydrogen_termination \in BOOLEAN :
        /\ call.op = "none"
        /\ call' = [NoArgs EXCEPT !.op = "chain", !.index = start_index,
                                  !.radius = jump_distance, !.extent = extent,
                                  !.species_blacklist = species_blacklist,
                                  !.index_blacklist = index_blacklist,
                                  !.hydrogen_termination = hydrogen_termination]
        /\ sel' = [items |-> <<g0.ions.items[start_index + 1]>>,
                   indices |-> <<start_index>>,
                   jumps |-> <<0>>,
                   parents |-> <<start_index>>,
                   expanded |-> <<>>,
                   first_hydrogen |-> TRUE]
        /\ io' = [cmd |-> "chain", pc |-> "loop", k |-> 1]
        /\ UNCHANGED <<centered, objVars, modeVars>>

\* the iterator of the outer loop has a next element
ChainHasNext == io.k <= Min(IterLen(sel), Len(sel.jumps))

\* one pass of the outer loop
ChainStep ==
    /\ io.cmd = "chain"
    /\ io.pc = "loop"
    /\ ChainHasNext
    /\ sel' = IF ChainLeaf(sel, io.k, call.extent, call.hydrogen_termination) THEN sel
              ELSE [ChainAdmit(sel, g0, ChainCopy(g0, sel.items[io.k].position),
                               sel.indices[io.k], sel.jumps[io.k], 1, call.radius,
                               call.species_blacklist, call.index_blacklist)
                       EXCEPT !.first_hydrogen = FALSE,
                              !.expanded = Append(@, sel.indices[io.k])]
    /\ io' = [io EXCEPT !.k = @ + 1]
    /\ UNCHANGED <<call, centered, objVars, modeVars>>

\* the iterator is exhausted: return selection
ChainEnd ==
    /\ io.cmd = "chain"
    /\ io.pc = "loop"
    /\ ~ChainHasNext
    /\ io' = [io EXCEPT !.pc = "done"]
    /\ UNCHANGED <<call, sel, centered, objVars, modeVars>>

NextChainRun == ChainBegin \/ ChainStep \/ ChainEnd

SpecChainRun == InitChain /\ [][NextChainRun]_vars

\* the step of the iterator of the outer loop: in a run of NextChainRun the
\* steps that advance the iterator are the passes of ChainStep, and a pass
\* can be taken exactly when the iterator has a next element
ChainAdvance ==
    /\ io.cmd = "chain"
    /\ io.pc = "loop"
    /\ ChainHasNext
    /\ io' = [io EXCEPT !.k = @ + 1]

\* the interpreter runs the loop on: an iterator that has a next element is
\* advanced, an exhausted one ends the loop
SpecChainRunFair == SpecChainRun /\ WF_io(ChainAdvance) /\ WF_vars(ChainEnd)

\* C28: get_select_chain terminates for every jump_distance and every extent,
\* the default extent included: every ion index is admitted at most once, so
\* the selection never holds more than the N ions of the structure, the loop
\* position never passes its end by more than one, and every run that was
\* started reaches its return.
C28_ChainTerminates ==
    /\ [](io.cmd = "chain" =>
            /\ Distinct(sel.indices)
            /\ Len(sel.indices) <= Len(g0.ions.items)
            /\ Len(sel.items) = Len(sel.indices)
            /\ io.k <= Len(sel.indices) + 1)
    /\ (io.cmd = "chain" ~> (io.cmd = "chain" /\ io.pc = "done"))

\* a run with the default extent that admitted every ion of a structure of
\* more than one ion and returned
C28_Witness ==
    /\ io.cmd = "chain"
    /\ io.pc = "done"
    /\ call.extent = NoExtent
    /\ Len(g0.ions.items) > 1
    /\ Len(sel.indices) = Len(g0.ions.items)

(***************************************************************************)
(* The periodic chain model: get_select_chain on ions whose neighbours lie *)
(* across the cell boundary, stored in either mode                         *)
(***************************************************************************)
MaxReachIons == 3

\* Direct x of ion k: neighbours 1-2 and 2-3 are a quarter apart, the first
\* pair across the cell boundary
ReachX(k) == CASE k = 1 -> Rat(1, 8) [] k = 2 -> Rat(7, 8) [] OTHER -> Rat(5, 8)

ReachIonLists ==
    {[k \in 1..Len(q) |-> [species |-> q[k], position |-> <<ReachX(k), Half, Half>>]] :
        q \in {r \in SeqsUpTo(ChainSpecies, MaxReachIons) : Len(r) >= 1}}

ReachDirect ==
    {[mode |-> "Direct", lattice |-> L, ions |-> MasterIons(q)] :
        L \in QueryLattices, q \in ReachIonLists}

\* every structure as stored in Direct mode and as stored after _toggle_mode
ReachPoscars == ReachDirect \cup {ToggleMode(p) : p \in ReachDirect}

InitReach ==
    /\ ObjStart
    /\ QueryIdle
    /\ g0 \in ReachPoscars
    /\ gprev = g0
    /\ g = g0
    /\ steps = <<>>

SpecReach == InitReach /\ [][CallChain]_vars

\* the squared Cartesian lengths of the separations of ions a and b (list
\* positions) over the periodic images one cell away in each direction
ImageDist2s(p, a, b) ==
    LET d == FracPart([x \in Axes |-> RSub(DirectOf(p, a)[x], DirectOf(p, b)[x])])
        A == Transpose(p.lattice)
        Z == <<Zero, Zero, Zero>>
    IN  {Dist2(MatVec(A, <<RAdd(d[1], RInt(n1)), RAdd(d[2], RInt(n2)),
                           RAdd(d[3], RInt(n3))>>), Z) :
            n1 \in -1..0, n2 \in -1..0, n3 \in -1..0}

\* ions a and b are within jump_distance of each other by nearest image
Near(p, a, b, jump_distance) ==
    \E q \in ImageDist2s(p, a, b) : RLe(q, RMul(jump_distance, jump_distance))

\* ion j (Python index) may be admitted under the two blacklists
Admissible(p, j, c) ==
    /\ ~SeqHas([k \in 1..Len(c.species_blacklist) |-> Lower(c.species_blacklist[k])],
               Lower(p.ions.items[j + 1].species))
    /\ ~SeqHas(c.index_blacklist, j)

\* ion i (Python index) may be expanded
Expandable(p, i, c) ==
    \/ i = c.index
    \/ ~(c.hydrogen_termination /\ p.ions.items[i + 1].species = "H")

\* the ions reachable from the start by an admissible path of at most d jumps
RECURSIVE Within(_, _, _)
Within(p, c, d) ==
    IF d = 0 THEN {c.index}
    ELSE LET R == Within(p, c, d - 1)
         IN  R \cup {j \in 0..(Len(p.ions.items) - 1) :
                        /\ Admissible(p, j, c)
                        /\ \E i \in R : Expandable(p, i, c)
                                        /\ Near(p, i + 1, j + 1, c.radius)}

\* no path needs more jumps than the structure has ions
Reach(p, c) == Within(p, c, Min(c.extent, Len(p.ions.items)))

\* the length of a shortest admissible path to ion j
JumpCount(p, c, j) == CHOOSE d \in 0..Len(p.ions.items) :
    /\ j \in Within(p, c, d)
    /\ \A e \in 0..(d - 1) : j \notin Within(p, c, e)

\* C29: get_select_chain returns exactly the ions reachable from start_index
\* by at most `extent` jumps of nearest-image Cartesian length at most
\* jump_distance through admissible, expandable ions; the result begins with
\* start_index and lists the ions by non-decreasing jump count, the jump
\* count of each being the length of a shortest such path.
C29_ChainReach ==
    call.op = "chain" =>
        /\ Range(sel.indices) = Reach(g0, call)
        /\ Distinct(sel.indices)
        /\ sel.indices[1] = call.index
        /\ \A k \in 1..(Len(sel.jumps) - 1) : sel.jumps[k] <= sel.jumps[k + 1]
        /\ \A k \in 1..Len(sel.indices) :
               sel.indices[k] \in Reach(g0, call) =>
                   sel.jumps[k] = JumpCount(g0, call, sel.indices[k])

\* C30: get_select_chain returns the same indices in the same order for a
\* Poscar stored in one mode and for the same structure after _toggle_mode.
C30_ModeIndependent ==
    call.op = "chain" =>
        sel.indices = GetSelectChain(ToggleMode(g0), call.index, call.radius, call.extent,
                                     call.species_blacklist, call.index_blacklist,
                                     call.hydrogen_termination).indices

====
